---- MODULE Spec2Model ----
(***************************************************************************)
(* Model of the slither-detectors package (tools/slither-detectors): the   *)
(* catalogue ALL_DETECTORS, the _detect method of the detectors and the    *)
(* predicates they are built from, run over a contract model by a runner.  *)
(*                                                                         *)
(* Text is a sequence of one-character strings, so that lower(), replace() *)
(* and the `in` substring test of the source are computed, not assumed.    *)
(***************************************************************************)
EXTENDS Integers, Sequences, FiniteSets, Bags, TLC

VARIABLES model, rules, fault, state, next, sink, errors, results, runs, report, previous,
          evaluated, pending, workers, metadata

vars == <<model, rules, fault, state, next, sink, errors, results, runs, report, previous,
          evaluated, pending, workers, metadata>>

-----------------------------------------------------------------------------
(* Bounds of the checked instances *)

\* runs of the catalogue over one model
MaxRuns == 2

\* contracts of a compilation unit
MaxContracts == 2

\* arguments of a call
MaxArgs == 2

\* nodes of a function body (of each part of a body with a loop)
MaxNodes == 2

\* workers of a concurrent run
MaxWorkers == 2

-----------------------------------------------------------------------------
(* Text primitives (Python str) *)

UpperCase == <<"A","B","C","D","E","F","G","H","I","J","K","L","M","N","O","P","Q","R","S","T","U","V","W","X","Y","Z">>

LowerCase == <<"a","b","c","d","e","f","g","h","i","j","k","l","m","n","o","p","q","r","s","t","u","v","w","x","y","z">>

\* str.lower()
lower(s) ==
  [i \in 1..Len(s) |->
     IF \E k \in DOMAIN UpperCase : UpperCase[k] = s[i]
     THEN LowerCase[CHOOSE k \in DOMAIN UpperCase : UpperCase[k] = s[i]]
     ELSE s[i]]

\* str.replace("_", "")
replace_underscore(s) == SelectSeq(s, LAMBDA ch : ch # "_")

\* `pattern in text` on two strings
contains(text, pattern) ==
  \E i \in 0..(Len(text) - Len(pattern)) :
     \A j \in 1..Len(pattern) : text[i + j] = pattern[j]

\* any(p in text for p in patterns)
any_in(patterns, text) == \E p \in patterns : contains(text, p)

\* concatenation of a sequence of sequences, in order
RECURSIVE Flatten(_)
Flatten(ss) == IF ss = << >> THEN << >> ELSE Head(ss) \o Flatten(Tail(ss))

\* all sequences over S of length 0..n
SeqsUpTo(S, n) == UNION {[1..k -> S] : k \in 0..n}

\* the elements of a sequence
Range(s) == {s[k] : k \in DOMAIN s}
-----------------------------------------------------------------------------
(* The contract model the detectors read: builders of its records *)

\* str(node) of the host: the node type's text, then the expression
NodeTypeText(type) ==
  CASE type = "EXPRESSION" -> <<"E","X","P","R","E","S","S","I","O","N">>
    [] type = "IF" -> <<"I","F">>
    [] type = "STARTLOOP" -> <<"B","E","G","I","N","_","L","O","O","P">>
    [] type = "IFLOOP" -> <<"I","F","_","L","O","O","P">>
    [] type = "ENDLOOP" -> <<"E","N","D","_","L","O","O","P">>
    [] type = "VARIABLE" -> <<"N","E","W"," ","V","A","R","I","A","B","L","E">>
    [] OTHER -> <<"R","E","T","U","R","N">>

Node(type, expression, require, irs) ==
  [type |-> type,
   expression |-> expression,
   text |-> IF expression = << >> THEN NodeTypeText(type)
            ELSE NodeTypeText(type) \o <<" ">> \o expression,
   require |-> require,
   irs |-> irs]

Expr(expression) == Node("EXPRESSION", expression, FALSE, << >>)

Require(expression) == Node("EXPRESSION", expression, TRUE, << >>)

\* the IR operations of a node
HighLevelCall(function_name, arguments, external) ==
  [kind |-> "HighLevelCall", function_name |-> function_name,
   arguments |-> arguments, external |-> external, state_lvalue |-> FALSE]

\* Assignment; state_lvalue: isinstance(ir.lvalue, StateVariable)
Assignment(state_lvalue) ==
  [kind |-> "Assignment", function_name |-> << >>,
   arguments |-> << >>, external |-> FALSE, state_lvalue |-> state_lvalue]

\* a call argument: a constant (it has .value) or a variable with the parameters
\* (indices) the host's data-dependency analysis says it depends on
Literal(value) == [has_value |-> TRUE, value |-> value, deps |-> {}]

Variable(deps) == [has_value |-> FALSE, value |-> << >>, deps |-> deps]

Parameter(name, type) == [name |-> name, type |-> type]

\* a function whose parameters (given by name) are all of type uint256, which
\* writes no state variable and makes no internal call
Function(name, visibility, parameters, modifiers, nodes) ==
  [name |-> name, visibility |-> visibility, is_constructor |-> FALSE,
   parameters |-> [p \in DOMAIN parameters |-> Parameter(parameters[p], <<"u","i","n","t","2","5","6">>)],
   modifiers |-> modifiers, nodes |-> nodes,
   state_variables_written |-> << >>, internal_calls |-> << >>]

Constructor(nodes) ==
  [name |-> <<"c","o","n","s","t","r","u","c","t","o","r">>, visibility |-> "public", is_constructor |-> TRUE,
   parameters |-> << >>, modifiers |-> << >>, nodes |-> nodes,
   state_variables_written |-> << >>, internal_calls |-> << >>]

StateVariable(name, type, expression) ==
  [name |-> name, type |-> type, expression |-> expression]

\* is_derived: the contract is in compilation_unit.contracts_derived
Contract(name, state_variables, functions) ==
  [name |-> name, state_variables |-> state_variables, functions |-> functions,
   is_derived |-> TRUE]

BaseContract(name, state_variables, functions) ==
  [name |-> name, state_variables |-> state_variables, functions |-> functions,
   is_derived |-> FALSE]

\* compilation_unit.contracts_derived, as indices into compilation_unit.contracts
contracts_derived(m) == SelectSeq([c \in 1..Len(m) |-> c], LAMBDA c : m[c].is_derived)

\* an entity a detector examines: contract c, or its function f (f = 0: the contract)
Entity(c, f) == [contract |-> c, function |-> f]

\* the entities of `for contract in contracts_derived: for function in contract.functions`
FunctionEntities(m) ==
  LET cs == contracts_derived(m) IN
  Flatten([k \in 1..Len(cs) |->
             [f \in 1..Len(m[cs[k]].functions) |-> Entity(cs[k], f)]])

\* the entities of `for contract in contracts_derived`
ContractEntities(m) ==
  LET cs == contracts_derived(m) IN [k \in 1..Len(cs) |-> Entity(cs[k], 0)]

\* `for contract in contracts_derived`, then `for function in contract.functions`
\* for the contracts in `selected`
ContractThenFunctionEntities(m, selected) ==
  LET cs == contracts_derived(m) IN
  Flatten([k \in 1..Len(cs) |->
             <<Entity(cs[k], 0)>> \o
             (IF cs[k] \in selected
              THEN [f \in 1..Len(m[cs[k]].functions) |-> Entity(cs[k], f)]
              ELSE << >>)])

\* variant of Finding: the info names no entity
Finding_anonymous(rule, e, item, check) ==
  [rule |-> rule, contract |-> 0, function |-> 0, item |-> item, check |-> check]

\* generate_result(info): the rule, the triggering entity (item: the node or the
\* state variable named in the message, 0 when none) and the violated check
Finding(rule, e, item, check) ==
  [rule |-> rule, contract |-> e.contract, function |-> e.function,
   item |-> item, check |-> check]

NoFault == [rule |-> "none", contract |-> 0, function |-> 0]

\* does the injected fault hit rule's examination of entity e
Faulty(flt, rule, e) ==
  flt.rule = rule /\ flt.contract = e.contract /\ flt.function = e.function

\* variant of NewResults: the list is not reset, the entries of the last call stay
NewResults_kept(leftover) == leftover

\* `results = []` at the top of every _detect; leftover is the list of the last call
NewResults(leftover) == << >>

\* The loop of a _detect: `for ...: results.append(...)`, then `return results`.
\* visits are the entities examined in order, found[i] the findings appended for
\* visits[i], raising[i] whether the code run for visits[i] raises by itself. No _detect has a try/except: a failure on one entity leaves the
\* method at once and the list built so far is never returned.
RECURSIVE DetectLoop(_, _, _, _, _, _, _)
DetectLoop(rule, visits, found, raising, flt, i, acc) ==
  IF i > Len(visits) THEN [raised |-> FALSE, results |-> acc]
  ELSE IF Faulty(flt, rule, visits[i]) \/ raising[i] THEN [raised |-> TRUE, results |-> acc]
  ELSE DetectLoop(rule, visits, found, raising, flt, i + 1, acc \o found[i])

-----------------------------------------------------------------------------
(* mev_risks.py: MissingSlippageProtection *)

DEX_SWAP_FUNCTIONS ==
  {<<"s","w","a","p">>, <<"s","w","a","p","E","x","a","c","t","T","o","k","e","n","s","F","o","r","T","o","k","e","n","s">>, <<"s","w","a","p","E","x","a","c","t","T","o","k","e","n","s","F","o","r","E","T","H">>,
   <<"s","w","a","p","E","x","a","c","t","E","T","H","F","o","r","T","o","k","e","n","s">>, <<"s","w","a","p","T","o","k","e","n","s","F","o","r","E","x","a","c","t","T","o","k","e","n","s">>, <<"e","x","c","h","a","n","g","e">>,
   <<"e","x","c","h","a","n","g","e","_","u","n","d","e","r","l","y","i","n","g">>, <<"s","e","l","l">>, <<"b","u","y">>, <<"e","x","a","c","t","I","n","p","u","t","S","i","n","g","l","e">>,
   <<"e","x","a","c","t","I","n","p","u","t">>, <<"e","x","a","c","t","O","u","t","p","u","t","S","i","n","g","l","e">>, <<"e","x","a","c","t","O","u","t","p","u","t">>}

MIN_OUTPUT_PARAMS ==
  {<<"m","i","n","a","m","o","u","n","t","o","u","t">>, <<"a","m","o","u","n","t","o","u","t","m","i","n">>, <<"m","i","n","o","u","t">>, <<"m","i","n","i","m","u","m","a","m","o","u","n","t">>,
   <<"m","i","n","r","e","c","e","i","v","e","d">>, <<"m","i","n","r","e","t","u","r","n">>, <<"a","m","o","u","n","t","o","u","t","m","i","n","i","m","u","m">>}

\* is_dependent(arg, param, function) for some param of the function
is_dependent_on_parameter(arg, function) ==
  \E p \in DOMAIN function.parameters : p \in arg.deps

\* the `for i, arg in enumerate(ir.arguments)` loop, from argument i on
RECURSIVE MissingSlippage_scan_arguments(_, _, _)
MissingSlippage_scan_arguments(arguments, function, i) ==
  IF i > Len(arguments) THEN FALSE
  ELSE IF arguments[i].has_value /\ arguments[i].value = <<"0">> THEN FALSE
  ELSE IF is_dependent_on_parameter(arguments[i], function) THEN TRUE
  ELSE MissingSlippage_scan_arguments(arguments, function, i + 1)

MissingSlippage_has_slippage_protection(ir, function) ==
  IF \E p \in DOMAIN function.parameters :
       replace_underscore(lower(function.parameters[p].name)) \in MIN_OUTPUT_PARAMS
  THEN TRUE
  ELSE MissingSlippage_scan_arguments(ir.arguments, function, 1)

\* the node indices of the issues, one per (node, DEX call without protection)
MissingSlippage_check_function_slippage(function) ==
  Flatten([n \in 1..Len(function.nodes) |->
    Flatten([k \in 1..Len(function.nodes[n].irs) |->
      LET ir == function.nodes[n].irs[k] IN
      IF /\ ir.kind = "HighLevelCall"
         /\ lower(ir.function_name) \in {lower(f) : f \in DEX_SWAP_FUNCTIONS}
         /\ ~MissingSlippage_has_slippage_protection(ir, function)
      THEN <<n>> ELSE << >>])])

\* variant of the loop body of _detect: no function is skipped
MissingSlippage_evaluate_any_visibility(m, e) ==
  LET issues == MissingSlippage_check_function_slippage(m[e.contract].functions[e.function]) IN
  [k \in 1..Len(issues) |->
     Finding("mev-missing-slippage", e, issues[k], "without slippage protection")]

MissingSlippage_evaluate(m, e) ==
  LET function == m[e.contract].functions[e.function] IN
  IF function.is_constructor \/ function.visibility \in {"private", "internal"}
  THEN << >>
  ELSE LET issues == MissingSlippage_check_function_slippage(function) IN
       [k \in 1..Len(issues) |->
          Finding("mev-missing-slippage", e, issues[k], "without slippage protection")]


-----------------------------------------------------------------------------
(* mev_risks.py: ExcessiveSlippageTolerance *)

MAX_SLIPPAGE_BPS == 500

Digits == <<"0","1","2","3","4","5","6","7","8","9">>

IsDigit(ch) == \E k \in DOMAIN Digits : Digits[k] = ch

DigitValue(ch) == (CHOOSE k \in DOMAIN Digits : Digits[k] = ch) - 1

\* the value of a non-empty run of decimal digits
RECURSIVE DecimalValue(_)
DecimalValue(ds) ==
  IF ds = << >> THEN 0
  ELSE 10 * DecimalValue(SubSeq(ds, 1, Len(ds) - 1)) + DigitValue(ds[Len(ds)])

IsSpace(ch) == ch \in {" ", "\t", "\n", "\r", "\f"}

\* str.strip()
RECURSIVE strip(_)
strip(s) ==
  IF s = << >> THEN s
  ELSE IF IsSpace(Head(s)) THEN strip(Tail(s))
  ELSE IF IsSpace(s[Len(s)]) THEN strip(SubSeq(s, 1, Len(s) - 1))
  ELSE s

\* int(text): [ok, value, raised]; raised is the ValueError of Python. A decimal
\* literal: optional sign, digits, single underscores allowed between digits.
int(text) ==
  LET t == strip(text)
      signed == t # << >> /\ Head(t) \in {"+", "-"}
      body == IF signed THEN Tail(t) ELSE t
      wellformed ==
        /\ body # << >>
        /\ \A i \in DOMAIN body : IsDigit(body[i]) \/ body[i] = "_"
        /\ IsDigit(body[1]) /\ IsDigit(body[Len(body)])
        /\ \A i \in 1..(Len(body) - 1) : ~(body[i] = "_" /\ body[i + 1] = "_")
      magnitude == DecimalValue(SelectSeq(body, IsDigit))
  IN IF ~wellformed THEN [ok |-> FALSE, value |-> 0, raised |-> TRUE]
     ELSE [ok |-> TRUE, raised |-> FALSE,
           value |-> IF signed /\ Head(t) = "-" THEN 0 - magnitude ELSE magnitude]

\* an initializer expression: None, an expression without .value, or one with it
NoExpression == [present |-> FALSE, has_value |-> FALSE, value |-> << >>]

LiteralExpression(value) == [present |-> TRUE, has_value |-> TRUE, value |-> value]

OtherExpression == [present |-> TRUE, has_value |-> FALSE, value |-> << >>]

None == [ok |-> FALSE, value |-> 0, raised |-> FALSE]

\* variant of _extract_numeric_value without the try/except around int()
ExcessiveSlippage_extract_numeric_value_uncaught(expression) ==
  IF expression.has_value THEN int(expression.value) ELSE None

\* hasattr(expression, 'value'), then int() inside try/except (ValueError, TypeError)
ExcessiveSlippage_extract_numeric_value(expression) ==
  IF expression.has_value
  THEN LET value == int(expression.value) IN IF value.raised THEN None ELSE value
  ELSE None

ExcessiveSlippage_is_slippage_variable(var) ==
  any_in({<<"s","l","i","p","p","a","g","e">>, <<"t","o","l","e","r","a","n","c","e">>, <<"m","a","x","s","l","i","p">>, <<"m","i","n","o","u","t">>}, lower(var.name))

\* the state variables of the contract whose initial value is reported
ExcessiveSlippage_evaluate(m, e) ==
  LET vs == m[e.contract].state_variables IN
  Flatten([v \in 1..Len(vs) |->
    LET value == ExcessiveSlippage_extract_numeric_value(vs[v].expression) IN
    IF /\ ExcessiveSlippage_is_slippage_variable(vs[v])
       /\ vs[v].expression.present
       /\ value.ok /\ value.value # 0 /\ value.value > MAX_SLIPPAGE_BPS
    THEN <<Finding("mev-excessive-slippage", e, v, "excessive slippage tolerance")>>
    ELSE << >>])

-----------------------------------------------------------------------------
(* mev_risks.py: MissingDeadlineCheck *)

DEADLINE_PARAMS == {<<"d","e","a","d","l","i","n","e">>, <<"e","x","p","i","r","y">>, <<"v","a","l","i","d","u","n","t","i","l">>, <<"e","x","p","i","r","e","s">>, <<"t","i","m","e","o","u","t">>}

MissingDeadline_is_swap_function(function) ==
  any_in({<<"s","w","a","p">>, <<"e","x","c","h","a","n","g","e">>, <<"t","r","a","d","e">>, <<"s","e","l","l">>, <<"b","u","y">>}, lower(function.name))

MissingDeadline_has_deadline_check(function) ==
  \/ \E p \in DOMAIN function.parameters :
       replace_underscore(lower(function.parameters[p].name)) \in DEADLINE_PARAMS
  \/ \E n \in DOMAIN function.nodes :
       /\ function.nodes[n].require
       /\ \/ contains(function.nodes[n].expression, <<"b","l","o","c","k",".","t","i","m","e","s","t","a","m","p">>)
          \/ contains(lower(function.nodes[n].expression), <<"d","e","a","d","l","i","n","e">>)

MissingDeadline_evaluate(m, e) ==
  LET function == m[e.contract].functions[e.function] IN
  IF MissingDeadline_is_swap_function(function) /\ ~MissingDeadline_has_deadline_check(function)
  THEN <<Finding("mev-missing-deadline", e, 0, "lacks deadline check")>>
  ELSE << >>

-----------------------------------------------------------------------------
(* mev_risks.py: FlashLoanEnabler *)

FLASH_LOAN_CALLBACKS ==
  {<<"o","n","f","l","a","s","h","l","o","a","n">>, <<"e","x","e","c","u","t","e","O","p","e","r","a","t","i","o","n">>, <<"u","n","i","s","w","a","p","V","2","C","a","l","l">>,
   <<"u","n","i","s","w","a","p","V","3","F","l","a","s","h","C","a","l","l","b","a","c","k">>, <<"p","a","n","c","a","k","e","C","a","l","l">>, <<"c","a","l","l","e","e">>, <<"c","a","l","l","b","a","c","k">>}

FlashLoan_validates_caller(function) ==
  \E n \in DOMAIN function.nodes :
    /\ function.nodes[n].require
    /\ contains(function.nodes[n].expression, <<"m","s","g",".","s","e","n","d","e","r">>)

FlashLoan_has_reentrancy_guard(function) ==
  \E k \in DOMAIN function.modifiers :
    any_in({<<"n","o","n","r","e","e","n","t","r","a","n","t">>, <<"l","o","c","k">>, <<"m","u","t","e","x">>}, lower(function.modifiers[k]))

\* the callback check of _check_flash_loan_risk
FlashLoan_is_callback(function) ==
  replace_underscore(lower(function.name)) \in FLASH_LOAN_CALLBACKS

\* the IR operations of the nodes of a function
IrsOf(function) ==
  UNION {Range(function.nodes[n].irs) : n \in DOMAIN function.nodes}

\* the node of each ir in `wanted`, one entry per ir
NodesWithIr(function, wanted) ==
  Flatten([n \in 1..Len(function.nodes) |->
    Flatten([k \in 1..Len(function.nodes[n].irs) |->
      IF function.nodes[n].irs[k] \in wanted THEN <<n>> ELSE << >>])])

FlashLoan_check_flash_loan_risk(function, e) ==
  LET external_call_nodes ==
        NodesWithIr(function, {ir \in IrsOf(function) : ir.kind = "HighLevelCall" /\ ir.external})
      state_change_nodes ==
        NodesWithIr(function, {ir \in IrsOf(function) : ir.kind = "Assignment" /\ ir.state_lvalue})
      later(x) == SelectSeq(state_change_nodes, LAMBDA sn : sn > external_call_nodes[x])
  IN
  (IF FlashLoan_is_callback(function) /\ ~FlashLoan_validates_caller(function)
   THEN <<Finding("mev-flash-loan-enabler", e, 0, "does not validate caller")>>
   ELSE << >>)
  \o
  Flatten([x \in 1..Len(external_call_nodes) |->
    IF later(x) # << >> /\ ~FlashLoan_has_reentrancy_guard(function)
    THEN <<Finding("mev-flash-loan-enabler", e, Head(later(x)),
                   "state change after external call")>>
    ELSE << >>])

FlashLoan_evaluate(m, e) ==
  LET function == m[e.contract].functions[e.function] IN
  IF function.visibility \in {"external", "public"}
  THEN FlashLoan_check_flash_loan_risk(function, e)
  ELSE << >>

-----------------------------------------------------------------------------
(* mev_risks.py: OracleManipulationRisk *)

SPOT_PRICE_FUNCTIONS ==
  {<<"g","e","t","s","p","o","t">>, <<"g","e","t","s","p","o","t","p","r","i","c","e">>, <<"g","e","t","r","e","s","e","r","v","e","s">>, <<"s","l","o","t","0">>, <<"g","e","t","p","r","i","c","e">>, <<"g","e","t","r","a","t","e">>}

TWAP_FUNCTIONS == {<<"o","b","s","e","r","v","e">>, <<"c","o","n","s","u","l","t">>, <<"t","w","a","p">>, <<"g","e","t","t","w","a","p">>, <<"g","e","t","a","v","e","r","a","g","e","p","r","i","c","e">>}

\* variant of _check_oracle_usage: a roundid in any node counts as a freshness check
Oracle_check_oracle_usage_any_roundid(function, e) ==
  LET content(n) == lower(function.nodes[n].text)
      uses_spot_price ==
        \E n \in DOMAIN function.nodes : any_in(SPOT_PRICE_FUNCTIONS, content(n))
      uses_twap ==
        \E n \in DOMAIN function.nodes : any_in(TWAP_FUNCTIONS, content(n))
      has_freshness_check ==
        \E n \in DOMAIN function.nodes :
          any_in({<<"u","p","d","a","t","e","d","a","t">>, <<"s","t","a","l","e","n","e","s","s">>, <<"h","e","a","r","t","b","e","a","t">>, <<"r","o","u","n","d","i","d">>}, content(n))
  IN
  (IF uses_spot_price /\ ~uses_twap
   THEN <<Finding("mev-oracle-manipulation", e, 0, "uses spot price without TWAP")>>
   ELSE << >>)
  \o
  (IF (uses_spot_price \/ uses_twap) /\ ~has_freshness_check
   THEN <<Finding("mev-oracle-manipulation", e, 0, "no freshness check on oracle data")>>
   ELSE << >>)

Oracle_check_oracle_usage(function, e) ==
  LET content(n) == lower(function.nodes[n].text)
      uses_spot_price ==
        \E n \in DOMAIN function.nodes : any_in(SPOT_PRICE_FUNCTIONS, content(n))
      uses_twap ==
        \E n \in DOMAIN function.nodes : any_in(TWAP_FUNCTIONS, content(n))
      has_freshness_check ==
        \E n \in DOMAIN function.nodes :
          \/ any_in({<<"u","p","d","a","t","e","d","a","t">>, <<"s","t","a","l","e","n","e","s","s">>, <<"h","e","a","r","t","b","e","a","t">>}, content(n))
          \/ contains(content(n), <<"r","o","u","n","d","i","d">>) /\ function.nodes[n].require
  IN
  (IF uses_spot_price /\ ~uses_twap
   THEN <<Finding("mev-oracle-manipulation", e, 0, "uses spot price without TWAP")>>
   ELSE << >>)
  \o
  (IF (uses_spot_price \/ uses_twap) /\ ~has_freshness_check
   THEN <<Finding("mev-oracle-manipulation", e, 0, "no freshness check on oracle data")>>
   ELSE << >>)

Oracle_evaluate(m, e) == Oracle_check_oracle_usage(m[e.contract].functions[e.function], e)
-----------------------------------------------------------------------------
(* l2_specific.py: SequencerDependency *)

TIME_SENSITIVE_FUNCTIONS ==
  {<<"l","i","q","u","i","d","a","t","e">>, <<"l","i","q","u","i","d","a","t","i","o","n">>, <<"a","u","c","t","i","o","n">>, <<"s","e","t","t","l","e">>, <<"e","x","p","i","r","e">>, <<"c","l","a","i","m">>,
   <<"w","i","t","h","d","r","a","w">>, <<"e","x","e","r","c","i","s","e">>, <<"e","x","e","c","u","t","e","l","i","q","u","i","d","a","t","i","o","n">>, <<"t","r","i","g","g","e","r","a","u","c","t","i","o","n">>, <<"c","a","l","l","m","a","r","g","i","n">>}

SEQUENCER_CHECK_PATTERNS ==
  {<<"s","e","q","u","e","n","c","e","r","u","p","t","i","m","e","f","e","e","d">>, <<"s","e","q","u","e","n","c","e","r","s","t","a","t","u","s">>, <<"l","2","s","e","q","u","e","n","c","e","r">>, <<"i","s","s","e","q","u","e","n","c","e","r","u","p">>}

\* variant of _is_l2_contract: over the derived contracts only
Sequencer_is_l2_derived_contract(m) ==
  \E c \in Range(contracts_derived(m)) :
    \/ any_in({<<"a","r","b","i","t","r","u","m">>, <<"o","p","t","i","m","i","s","m">>, <<"l","2">>, <<"r","o","l","l","u","p">>}, lower(m[c].name))
    \/ \E f \in DOMAIN m[c].functions : \E n \in DOMAIN m[c].functions[f].nodes :
         any_in({<<"a","r","b","s","y","s">>, <<"l","2","m","e","s","s","e","n","g","e","r">>, <<"o","v","m","c","o","n","t","e","x","t">>},
                lower(m[c].functions[f].nodes[n].text))

\* over compilation_unit.contracts, derived or not
Sequencer_is_l2_contract(m) ==
  \E c \in DOMAIN m :
    \/ any_in({<<"a","r","b","i","t","r","u","m">>, <<"o","p","t","i","m","i","s","m">>, <<"l","2">>, <<"r","o","l","l","u","p">>}, lower(m[c].name))
    \/ \E f \in DOMAIN m[c].functions : \E n \in DOMAIN m[c].functions[f].nodes :
         any_in({<<"a","r","b","s","y","s">>, <<"l","2","m","e","s","s","e","n","g","e","r">>, <<"o","v","m","c","o","n","t","e","x","t">>},
                lower(m[c].functions[f].nodes[n].text))

Sequencer_is_time_sensitive(function) ==
  any_in(TIME_SENSITIVE_FUNCTIONS, replace_underscore(lower(function.name)))

Sequencer_contract_checks_sequencer(contract) ==
  \E f \in DOMAIN contract.functions : \E n \in DOMAIN contract.functions[f].nodes :
    any_in(SEQUENCER_CHECK_PATTERNS,
           replace_underscore(lower(contract.functions[f].nodes[n].text)))

\* `if not self._is_l2_contract(): return results` comes before the loop
Sequencer_visits(m) ==
  IF Sequencer_is_l2_contract(m)
  THEN ContractThenFunctionEntities(m, DOMAIN m)
  ELSE << >>

Sequencer_evaluate(m, e) ==
  IF e.function = 0 THEN << >>
  ELSE IF /\ Sequencer_is_time_sensitive(m[e.contract].functions[e.function])
          /\ ~Sequencer_contract_checks_sequencer(m[e.contract])
  THEN <<Finding("l2-sequencer-dependency", e, 0, "lacks sequencer uptime check")>>
  ELSE << >>

-----------------------------------------------------------------------------
(* l2_specific.py: L1L2MessageRisk *)

L1L2_PATTERNS ==
  {<<"o","n","l","y","b","r","i","d","g","e">>, <<"o","n","l","y","m","e","s","s","e","n","g","e","r">>, <<"c","r","o","s","s","c","h","a","i","n","m","e","s","s","a","g","e">>, <<"r","e","c","e","i","v","e","m","e","s","s","a","g","e">>,
   <<"f","i","n","a","l","i","z","e","m","e","s","s","a","g","e">>, <<"r","e","l","a","y","e","r","m","e","s","s","a","g","e">>, <<"c","r","e","a","t","e","r","e","t","r","y","a","b","l","e","t","i","c","k","e","t">>, <<"r","e","d","e","e","m","t","i","c","k","e","t">>}

L1L2Message_is_message_handler(function) ==
  \/ any_in(L1L2_PATTERNS, replace_underscore(lower(function.name)))
  \/ \E k \in DOMAIN function.modifiers :
       any_in({<<"b","r","i","d","g","e">>, <<"m","e","s","s","e","n","g","e","r">>}, lower(function.modifiers[k]))

L1L2Message_check_message_handler(function, e) ==
  LET content(n) == lower(function.nodes[n].text)
      has_replay_protection ==
        \E n \in DOMAIN function.nodes :
          any_in({<<"n","o","n","c","e">>, <<"p","r","o","c","e","s","s","e","d">>, <<"e","x","e","c","u","t","e","d">>, <<"m","e","s","s","a","g","e","i","d">>}, content(n))
      has_timestamp_check ==
        \E n \in DOMAIN function.nodes :
          any_in({<<"b","l","o","c","k",".","t","i","m","e","s","t","a","m","p">>, <<"s","t","a","l","e","n","e","s","s">>}, content(n))
  IN
  (IF ~has_replay_protection
   THEN <<Finding("l2-message-risk", e, 0, "lacks replay protection")>> ELSE << >>)
  \o
  (IF ~has_timestamp_check
   THEN <<Finding("l2-message-risk", e, 0, "no freshness validation")>> ELSE << >>)

L1L2Message_evaluate(m, e) ==
  LET function == m[e.contract].functions[e.function] IN
  IF L1L2Message_is_message_handler(function)
  THEN L1L2Message_check_message_handler(function, e)
  ELSE << >>

-----------------------------------------------------------------------------
(* l2_specific.py: AddressAliasingRisk *)

\* the scan stops at the first function that decides: an external/public function
\* with a matching modifier or name
AddressAliasing_has_cross_chain_handler(contract) ==
  \E f \in DOMAIN contract.functions :
    LET function == contract.functions[f] IN
    /\ function.visibility \in {"external", "public"}
    /\ \/ \E k \in DOMAIN function.modifiers :
            any_in({<<"b","r","i","d","g","e">>, <<"l","1">>, <<"c","r","o","s","s","c","h","a","i","n">>}, lower(function.modifiers[k]))
       \/ any_in({<<"f","r","o","m","l","1">>, <<"o","n","r","e","c","e","i","v","e">>, <<"r","e","l","a","y","e","d">>}, lower(function.name))

AddressAliasing_handles_address_aliasing(contract) ==
  \E f \in DOMAIN contract.functions : \E n \in DOMAIN contract.functions[f].nodes :
    any_in({<<"a","d","d","r","e","s","s","a","l","i","a","s","h","e","l","p","e","r">>, <<"u","n","d","o","l","1","t","o","l","2","a","l","i","a","s">>, <<"a","p","p","l","y","l","1","t","o","l","2","a","l","i","a","s">>,
            <<"1","1","1","1","0","0","0","0","0","0","0","0","0","0","0","0">>},
           lower(contract.functions[f].nodes[n].text))

AddressAliasing_evaluate(m, e) ==
  IF /\ AddressAliasing_has_cross_chain_handler(m[e.contract])
     /\ ~AddressAliasing_handles_address_aliasing(m[e.contract])
  THEN <<Finding("l2-address-aliasing", e, 0, "may not account for address aliasing")>>
  ELSE << >>

-----------------------------------------------------------------------------
(* l2_specific.py: L2GasCalculationRisk *)

RECURSIVE skip_spaces(_, _)
skip_spaces(s, j) == IF j <= Len(s) /\ IsSpace(s[j]) THEN skip_spaces(s, j + 1) ELSE j

RECURSIVE digits_end(_, _)
digits_end(s, j) == IF j <= Len(s) /\ IsDigit(s[j]) THEN digits_end(s, j + 1) ELSE j

\* re.search(r'gas:\s*(\d+)', content): the leftmost match, its group as an int
re_search_gas(content) ==
  LET starts == {i \in 1..Len(content) :
                   /\ i + 3 <= Len(content)
                   /\ SubSeq(content, i, i + 3) = <<"g","a","s",":">>
                   /\ LET j == skip_spaces(content, i + 4) IN
                      j <= Len(content) /\ IsDigit(content[j])}
  IN IF starts = {} THEN None
     ELSE LET i == CHOOSE x \in starts : \A y \in starts : x <= y
              j == skip_spaces(content, i + 4)
          IN [ok |-> TRUE, raised |-> FALSE,
              value |-> DecimalValue(SubSeq(content, j, digits_end(content, j) - 1))]

\* the issues of one node, in order
L2Gas_node_issues(content) ==
  LET gas_match == re_search_gas(content) IN
  (IF /\ contains(content, <<".","c","a","l","l","{","g","a","s",":">>) \/ contains(content, <<".","c","a","l","l","{","v","a","l","u","e",":">>)
      /\ contains(content, <<"g","a","s",":">>)
      /\ gas_match.ok
      /\ gas_match.value > 0 /\ gas_match.value < 1000000
   THEN <<"hardcoded gas limit">> ELSE << >>)
  \o
  (IF contains(content, <<"b","l","o","c","k",".","g","a","s","l","i","m","i","t">>) THEN <<"block.gaslimit differs on L2">> ELSE << >>)

L2Gas_check_gas_usage(function, e) ==
  Flatten([n \in 1..Len(function.nodes) |->
    LET issues == L2Gas_node_issues(function.nodes[n].text) IN
    [k \in 1..Len(issues) |-> Finding("l2-gas-calculation", e, 0, issues[k])]])

L2Gas_evaluate(m, e) == L2Gas_check_gas_usage(m[e.contract].functions[e.function], e)

-----------------------------------------------------------------------------
(* l2_specific.py: ReorgRisk *)

Reorg_check_finality_assumptions(function, e) ==
  Flatten([n \in 1..Len(function.nodes) |->
    LET content == lower(function.nodes[n].text) IN
    (IF contains(content, <<"b","l","o","c","k","h","a","s","h">>)
     THEN <<Finding("l2-reorg-risk", e, 0, "uses blockhash")>> ELSE << >>)
    \o
    (IF contains(content, <<"p","r","e","v","r","a","n","d","a","o">>) \/ contains(content, <<"b","l","o","c","k",".","d","i","f","f","i","c","u","l","t","y">>)
     THEN <<Finding("l2-reorg-risk", e, 0, "uses prevrandao/difficulty")>> ELSE << >>)])

Reorg_evaluate(m, e) == Reorg_check_finality_assumptions(m[e.contract].functions[e.function], e)
-----------------------------------------------------------------------------
(* emerging_protocols.py: RestakingSlashingRisk *)

SLASHING_PATTERNS ==
  {<<"s","l","a","s","h">>, <<"p","e","n","a","l","i","z","e">>, <<"s","l","a","s","h","i","n","g">>, <<"p","e","n","a","l","t","y">>, <<"p","u","n","i","s","h">>, <<"c","o","n","f","i","s","c","a","t","e">>}

RestakingSlashing_is_restaking_contract(contract) ==
  any_in({<<"r","e","s","t","a","k","i","n","g">>, <<"e","i","g","e","n","l","a","y","e","r">>, <<"a","v","s">>, <<"o","p","e","r","a","t","o","r">>, <<"d","e","l","e","g","a","t","i","o","n">>,
          <<"s","t","a","k","i","n","g">>, <<"s","y","m","b","i","o","t","i","c">>, <<"v","a","u","l","t">>}, lower(contract.name))

RestakingSlashing_is_slashing_function(function) ==
  any_in(SLASHING_PATTERNS, replace_underscore(lower(function.name)))

RestakingSlashing_check_slashing_safety(function, contract, e) ==
  LET content(n) == lower(function.nodes[n].text)
      varname(v) == lower(contract.state_variables[v].name)
      has_cap ==
        \/ \E v \in DOMAIN contract.state_variables :
             any_in({<<"s","l","a","s","h","i","n","g","c","a","p">>, <<"m","a","x","s","l","a","s","h">>}, varname(v))
        \/ \E n \in DOMAIN function.nodes : any_in({<<"m","a","x","s","l","a","s","h">>, <<"c","a","p">>}, content(n))
      has_circuit_breaker ==
        \E n \in DOMAIN function.nodes : any_in({<<"p","a","u","s","e","d">>, <<"e","m","e","r","g","e","n","c","y">>}, content(n))
      tracks_cumulative ==
        \/ \E v \in DOMAIN contract.state_variables :
             any_in({<<"c","u","m","u","l","a","t","i","v","e","s","l","a","s","h">>, <<"t","o","t","a","l","s","l","a","s","h">>}, varname(v))
        \/ \E n \in DOMAIN function.nodes :
             /\ any_in({<<"c","u","m","u","l","a","t","i","v","e">>, <<"+","=">>}, content(n))
             /\ any_in({<<"s","l","a","s","h">>, <<"p","e","n","a","l","t","y">>}, content(n))
  IN
  (IF ~has_cap
   THEN <<Finding("restaking-slashing-risk", e, 0, "no slashing cap")>> ELSE << >>)
  \o
  (IF ~tracks_cumulative
   THEN <<Finding("restaking-slashing-risk", e, 0, "no cumulative slashing tracking")>>
   ELSE << >>)
  \o
  (IF ~has_circuit_breaker
   THEN <<Finding("restaking-slashing-risk", e, 0, "no circuit breaker")>> ELSE << >>)

RestakingSlashing_evaluate(m, e) ==
  IF e.function = 0 THEN << >>
  ELSE LET function == m[e.contract].functions[e.function] IN
       IF RestakingSlashing_is_slashing_function(function)
       THEN RestakingSlashing_check_slashing_safety(function, m[e.contract], e)
       ELSE << >>

-----------------------------------------------------------------------------
(* emerging_protocols.py: RestakingDelegationRisk *)

DELEGATION_PATTERNS ==
  {<<"d","e","l","e","g","a","t","e">>, <<"u","n","d","e","l","e","g","a","t","e">>, <<"r","e","d","e","l","e","g","a","t","e">>, <<"s","e","t","o","p","e","r","a","t","o","r">>, <<"c","h","o","o","s","e","o","p","e","r","a","t","o","r">>,
   <<"s","e","l","e","c","t","v","a","l","i","d","a","t","o","r">>}

RestakingDelegation_is_delegation_function(function) ==
  any_in(DELEGATION_PATTERNS, replace_underscore(lower(function.name)))

RestakingDelegation_check_delegation_safety(function, e) ==
  LET content(n) == lower(function.nodes[n].text)
      has_cooldown ==
        \/ \E n \in DOMAIN function.nodes :
             any_in({<<"c","o","o","l","d","o","w","n">>, <<"w","a","i","t","p","e","r","i","o","d">>, <<"d","e","l","a","y">>}, content(n))
        \/ \E k \in DOMAIN function.modifiers :
             any_in({<<"c","o","o","l","d","o","w","n">>, <<"d","e","l","a","y">>, <<"t","i","m","e","l","o","c","k">>}, lower(function.modifiers[k]))
      has_timelock ==
        \E n \in DOMAIN function.nodes :
          /\ contains(content(n), <<"b","l","o","c","k",".","t","i","m","e","s","t","a","m","p">>)
          /\ any_in({<<">","=">>, <<">">>, <<"a","f","t","e","r">>}, content(n))
  IN IF ~has_cooldown /\ ~has_timelock
     THEN <<Finding("restaking-delegation-risk", e, 0, "no cooldown/timelock")>>
     ELSE << >>

RestakingDelegation_evaluate(m, e) ==
  LET function == m[e.contract].functions[e.function] IN
  IF RestakingDelegation_is_delegation_function(function)
  THEN RestakingDelegation_check_delegation_safety(function, e)
  ELSE << >>

-----------------------------------------------------------------------------
(* emerging_protocols.py: IntentReplayRisk *)

INTENT_PATTERNS ==
  {<<"e","x","e","c","u","t","e","i","n","t","e","n","t">>, <<"f","i","l","l","o","r","d","e","r">>, <<"s","e","t","t","l","e","i","n","t","e","n","t">>, <<"r","e","s","o","l","v","e","i","n","t","e","n","t">>,
   <<"e","x","e","c","u","t","e","s","i","g","n","e","d">>, <<"f","i","l","l","s","i","g","n","e","d">>}

IntentReplay_is_intent_handler(function) ==
  any_in(INTENT_PATTERNS, replace_underscore(lower(function.name)))

IntentReplay_check_intent_safety(function, e) ==
  LET content(n) == lower(function.nodes[n].text)
      tracked(n) == any_in({<<"n","o","n","c","e">>, <<"e","x","e","c","u","t","e","d">>, <<"c","o","n","s","u","m","e","d">>}, content(n))
      has_nonce_check ==
        \E n \in DOMAIN function.nodes : tracked(n) /\ function.nodes[n].require
      marks_consumed ==
        \E n \in DOMAIN function.nodes :
          tracked(n) /\ any_in({<<"="," ","t","r","u","e">>, <<"[">>}, content(n))
      has_expiry_check ==
        \E n \in DOMAIN function.nodes :
          /\ any_in({<<"d","e","a","d","l","i","n","e">>, <<"e","x","p","i","r","y">>, <<"v","a","l","i","d","u","n","t","i","l">>}, content(n))
          /\ contains(content(n), <<"b","l","o","c","k",".","t","i","m","e","s","t","a","m","p">>) \/ function.nodes[n].require
  IN
  (IF ~has_nonce_check
   THEN <<Finding("intent-replay-risk", e, 0, "no nonce/consumed check")>> ELSE << >>)
  \o
  (IF ~has_expiry_check
   THEN <<Finding("intent-replay-risk", e, 0, "no expiry validation")>> ELSE << >>)
  \o
  (IF ~marks_consumed
   THEN <<Finding("intent-replay-risk", e, 0, "intent not marked as consumed")>> ELSE << >>)

IntentReplay_evaluate(m, e) ==
  LET function == m[e.contract].functions[e.function] IN
  IF IntentReplay_is_intent_handler(function)
  THEN IntentReplay_check_intent_safety(function, e)
  ELSE << >>

-----------------------------------------------------------------------------
(* emerging_protocols.py: SolverCollusionRisk *)

SolverCollusion_is_solver_contract(contract) ==
  any_in({<<"s","o","l","v","e","r">>, <<"r","e","s","o","l","v","e","r">>, <<"f","i","l","l","e","r">>, <<"r","e","l","a","y","e","r">>, <<"s","e","t","t","l","e","r">>},
         lower(contract.name))

SolverCollusion_check_solver_fairness(contract, e) ==
  LET name(f) == lower(contract.functions[f].name)
      has_auction ==
        \E f \in DOMAIN contract.functions :
          any_in({<<"a","u","c","t","i","o","n">>, <<"b","i","d">>, <<"c","o","m","p","e","t","e">>}, name(f))
      has_reputation ==
        \E f \in DOMAIN contract.functions :
          any_in({<<"r","e","p","u","t","a","t","i","o","n">>, <<"s","c","o","r","e">>, <<"s","l","a","s","h">>}, name(f))
      has_price_check ==
        \E f \in DOMAIN contract.functions : \E n \in DOMAIN contract.functions[f].nodes :
          any_in({<<"m","i","n","p","r","i","c","e">>, <<"p","r","i","c","e","i","m","p","r","o","v","e","m","e","n","t">>, <<"m","a","r","k","e","t","p","r","i","c","e">>},
                 lower(contract.functions[f].nodes[n].text))
  IN
  (IF ~has_auction
   THEN <<Finding("solver-collusion-risk", e, 0, "no solver auction mechanism")>>
   ELSE << >>)
  \o
  (IF ~has_price_check
   THEN <<Finding("solver-collusion-risk", e, 0, "no price improvement validation")>>
   ELSE << >>)
  \o
  (IF ~has_reputation
   THEN <<Finding("solver-collusion-risk", e, 0, "no solver reputation mechanism")>>
   ELSE << >>)

SolverCollusion_evaluate(m, e) ==
  IF SolverCollusion_is_solver_contract(m[e.contract])
  THEN SolverCollusion_check_solver_fairness(m[e.contract], e)
  ELSE << >>

-----------------------------------------------------------------------------
(* emerging_protocols.py: PointsSybilRisk *)

POINTS_PATTERNS ==
  {<<"a","d","d","p","o","i","n","t","s">>, <<"a","c","c","u","m","u","l","a","t","e","p","o","i","n","t","s">>, <<"a","w","a","r","d","p","o","i","n","t","s">>, <<"u","p","d","a","t","e","p","o","i","n","t","s">>,
   <<"c","l","a","i","m","p","o","i","n","t","s">>, <<"r","e","f","e","r">>, <<"r","e","f","e","r","r","a","l">>}

PointsSybil_is_points_function(function) ==
  any_in(POINTS_PATTERNS, replace_underscore(lower(function.name)))

PointsSybil_check_points_safety(function, e) ==
  LET content(n) == lower(function.nodes[n].text)
      has_time_weight ==
        \E n \in DOMAIN function.nodes :
          any_in({<<"t","i","m","e","w","e","i","g","h","t">>, <<"d","u","r","a","t","i","o","n">>, <<"e","l","a","p","s","e","d">>}, content(n))
      has_min_duration ==
        \E n \in DOMAIN function.nodes :
          any_in({<<"m","i","n","d","u","r","a","t","i","o","n">>, <<"l","o","c","k","p","e","r","i","o","d">>, <<"v","e","s","t","i","n","g","s","t","a","r","t">>}, content(n))
      has_cap ==
        \E n \in DOMAIN function.nodes :
          any_in({<<"m","a","x","p","o","i","n","t","s">>, <<"c","a","p">>, <<"l","i","m","i","t">>}, content(n))
  IN
  (IF ~has_time_weight /\ ~has_min_duration
   THEN <<Finding("points-sybil-risk", e, 0, "no time-weighting")>> ELSE << >>)
  \o
  (IF contains(lower(function.name), <<"r","e","f","e","r","r","a","l">>) /\ ~has_cap
   THEN <<Finding("points-sybil-risk", e, 0, "referral rewards not capped")>> ELSE << >>)

PointsSybil_evaluate(m, e) ==
  LET function == m[e.contract].functions[e.function] IN
  IF PointsSybil_is_points_function(function)
  THEN PointsSybil_check_points_safety(function, e)
  ELSE << >>

-----------------------------------------------------------------------------
(* emerging_protocols.py: MerkleProofRisk *)

\* " ".join(params)
RECURSIVE join_with_space(_)
join_with_space(names) ==
  IF names = << >> THEN << >>
  ELSE IF Len(names) = 1 THEN names[1]
  ELSE names[1] \o <<" ">> \o join_with_space(Tail(names))

MerkleProof_is_merkle_claim(function) ==
  /\ any_in({<<"c","l","a","i","m">>, <<"r","e","d","e","e","m">>}, lower(function.name))
  /\ contains(join_with_space([p \in DOMAIN function.parameters |->
                                 lower(function.parameters[p].name)]), <<"p","r","o","o","f">>)

MerkleProof_check_merkle_safety(function, contract, e) ==
  LET content(n) == lower(function.nodes[n].text)
      has_claim_tracking ==
        \/ \E v \in DOMAIN contract.state_variables :
             any_in({<<"c","l","a","i","m","e","d">>, <<"r","e","d","e","e","m","e","d">>}, lower(contract.state_variables[v].name))
        \/ \E n \in DOMAIN function.nodes :
             any_in({<<"c","l","a","i","m","e","d","[">>, <<"r","e","d","e","e","m","e","d","[">>}, content(n))
      verifies_sender ==
        \E n \in DOMAIN function.nodes :
          /\ any_in({<<"m","e","r","k","l","e">>, <<"v","e","r","i","f","y">>}, content(n))
          /\ contains(content(n), <<"m","s","g",".","s","e","n","d","e","r">>)
  IN
  (IF ~has_claim_tracking
   THEN <<Finding("merkle-proof-risk", e, 0, "no claim tracking")>> ELSE << >>)
  \o
  (IF ~verifies_sender
   THEN <<Finding("merkle-proof-risk", e, 0, "proof doesn't include msg.sender")>>
   ELSE << >>)

\* variant of MerkleProof_evaluate: the checks run on every function
MerkleProof_evaluate_unselected(m, e) ==
  MerkleProof_check_merkle_safety(m[e.contract].functions[e.function], m[e.contract], e)

MerkleProof_evaluate(m, e) ==
  LET function == m[e.contract].functions[e.function] IN
  IF MerkleProof_is_merkle_claim(function)
  THEN MerkleProof_check_merkle_safety(function, m[e.contract], e)
  ELSE << >>
-----------------------------------------------------------------------------
(* admin_security.py: ProxyUpgradeNoTimelock *)

UPGRADE_PATTERNS ==
  {<<"u","p","g","r","a","d","e">>, <<"u","p","g","r","a","d","e","t","o">>, <<"u","p","g","r","a","d","e","t","o","a","n","d","c","a","l","l">>, <<"s","e","t","i","m","p","l","e","m","e","n","t","a","t","i","o","n">>,
   <<"c","h","a","n","g","e","i","m","p","l","e","m","e","n","t","a","t","i","o","n">>, <<"_","s","e","t","i","m","p","l","e","m","e","n","t","a","t","i","o","n">>}

TIMELOCK_PATTERNS ==
  {<<"t","i","m","e","l","o","c","k">>, <<"d","e","l","a","y">>, <<"s","c","h","e","d","u","l","e","d","u","p","g","r","a","d","e">>, <<"p","e","n","d","i","n","g","i","m","p","l","e","m","e","n","t","a","t","i","o","n">>,
   <<"u","p","g","r","a","d","e","q","u","e","u","e">>, <<"m","i","n","d","e","l","a","y">>}

ProxyUpgrade_is_proxy_or_admin(contract) ==
  any_in({<<"p","r","o","x","y">>, <<"a","d","m","i","n">>, <<"u","p","g","r","a","d","e","a","b","l","e">>, <<"u","p","g","r","a","d","e","a","b","i","l","i","t","y">>, <<"p","r","o","x","y","a","d","m","i","n">>,
          <<"t","r","a","n","s","p","a","r","e","n","t","p","r","o","x","y">>, <<"u","u","p","s">>}, lower(contract.name))

ProxyUpgrade_is_upgrade_function(function) ==
  any_in(UPGRADE_PATTERNS, replace_underscore(lower(function.name)))

\* variant of _contract_has_timelock: the state variables are not looked at
ProxyUpgrade_contract_has_timelock_function(contract) ==
  \E f \in DOMAIN contract.functions :
    any_in({<<"s","c","h","e","d","u","l","e">>, <<"q","u","e","u","e">>, <<"e","x","e","c","u","t","e">>}, lower(contract.functions[f].name))

ProxyUpgrade_contract_has_timelock(contract) ==
  \/ \E v \in DOMAIN contract.state_variables :
       any_in(TIMELOCK_PATTERNS, lower(contract.state_variables[v].name))
  \/ \E f \in DOMAIN contract.functions :
       any_in({<<"s","c","h","e","d","u","l","e">>, <<"q","u","e","u","e">>, <<"e","x","e","c","u","t","e">>}, lower(contract.functions[f].name))

ProxyUpgrade_function_has_delay(function) ==
  \E n \in DOMAIN function.nodes :
    LET content == lower(function.nodes[n].text) IN
    \/ any_in(TIMELOCK_PATTERNS, content)
    \/ contains(content, <<"b","l","o","c","k",".","t","i","m","e","s","t","a","m","p">>) /\ contains(content, <<">","=">>)

ProxyUpgrade_evaluate(m, e) ==
  IF e.function = 0 THEN << >>
  ELSE LET function == m[e.contract].functions[e.function] IN
       IF /\ ProxyUpgrade_is_upgrade_function(function)
          /\ ~ProxyUpgrade_contract_has_timelock(m[e.contract])
          /\ ~ProxyUpgrade_function_has_delay(function)
       THEN <<Finding("admin-upgrade-no-timelock", e, 0,
                      "immediate proxy upgrade without timelock")>>
       ELSE << >>

-----------------------------------------------------------------------------
(* admin_security.py: SharedDeployerRisk *)

SharedDeployer_has_admin_transfer(contract) ==
  \E f \in DOMAIN contract.functions :
    any_in({<<"t","r","a","n","s","f","e","r","a","d","m","i","n">>, <<"s","e","t","a","d","m","i","n">>, <<"c","h","a","n","g","e","a","d","m","i","n">>},
           lower(contract.functions[f].name))

SharedDeployer_has_ownership_transfer(contract) ==
  \E f \in DOMAIN contract.functions :
    any_in({<<"t","r","a","n","s","f","e","r","o","w","n","e","r","s","h","i","p">>, <<"s","e","t","o","w","n","e","r">>, <<"c","h","a","n","g","e","o","w","n","e","r">>},
           lower(contract.functions[f].name))

\* contract.constructor: the constructor among the functions, if any
constructor_of(contract) ==
  SelectSeq(contract.functions, LAMBDA function : function.is_constructor)

\* one issue per constructor node and matching pattern
SharedDeployer_check_deployer_patterns(contract, e) ==
  IF constructor_of(contract) = << >> THEN << >>
  ELSE LET nodes == Head(constructor_of(contract)).nodes IN
       Flatten([n \in 1..Len(nodes) |->
         LET content == lower(nodes[n].text) IN
         (IF /\ contains(content, <<"m","s","g",".","s","e","n","d","e","r">>) /\ contains(content, <<"a","d","m","i","n">>)
             /\ ~SharedDeployer_has_admin_transfer(contract)
          THEN <<Finding("admin-shared-deployer", e, 0,
                         "deployer as admin without transfer mechanism")>>
          ELSE << >>)
         \o
         (IF /\ contains(content, <<"m","s","g",".","s","e","n","d","e","r">>) /\ contains(content, <<"o","w","n","e","r">>)
             /\ ~SharedDeployer_has_ownership_transfer(contract)
          THEN <<Finding("admin-shared-deployer", e, 0, "deployer as owner")>>
          ELSE << >>)])

SharedDeployer_evaluate(m, e) == SharedDeployer_check_deployer_patterns(m[e.contract], e)

-----------------------------------------------------------------------------
(* admin_security.py: L2BridgeExitRisk *)

BRIDGE_PATTERNS ==
  {<<"b","r","i","d","g","e">>, <<"w","i","t","h","d","r","a","w">>, <<"l","1","g","a","t","e","w","a","y">>, <<"o","u","t","b","o","u","n","d","t","r","a","n","s","f","e","r">>, <<"s","e","n","d","t","o","L","1">>,
   <<"i","n","i","t","i","a","t","e","w","i","t","h","d","r","a","w","a","l">>}

ADMIN_PATTERNS ==
  {<<"o","n","l","y","a","d","m","i","n">>, <<"o","n","l","y","o","w","n","e","r">>, <<"o","n","l","y","g","o","v","e","r","n","a","n","c","e">>, <<"o","n","l","y","a","u","t","h","o","r","i","z","e","d">>, <<"a","d","m","i","n","o","n","l","y">>}

\* variant of _is_admin_withdrawal: the modifiers are not looked at
BridgeExit_is_withdrawal(function) ==
  any_in({<<"w","i","t","h","d","r","a","w">>, <<"r","e","s","c","u","e">>, <<"r","e","c","o","v","e","r">>, <<"s","w","e","e","p">>, <<"t","r","a","n","s","f","e","r">>, <<"b","r","i","d","g","e">>},
         lower(function.name))

BridgeExit_is_admin_withdrawal(function) ==
  /\ any_in({<<"w","i","t","h","d","r","a","w">>, <<"r","e","s","c","u","e">>, <<"r","e","c","o","v","e","r">>, <<"s","w","e","e","p">>, <<"t","r","a","n","s","f","e","r">>, <<"b","r","i","d","g","e">>},
            lower(function.name))
  /\ \E k \in DOMAIN function.modifiers :
       any_in(ADMIN_PATTERNS, lower(function.modifiers[k]))

BridgeExit_check_withdrawal_safety(function, e) ==
  LET content(n) == lower(function.nodes[n].text)
      has_limit ==
        \E n \in DOMAIN function.nodes :
          any_in({<<"m","a","x","w","i","t","h","d","r","a","w","a","l">>, <<"w","i","t","h","d","r","a","w","a","l","l","i","m","i","t">>, <<"d","a","i","l","y","l","i","m","i","t">>}, content(n))
      has_delay ==
        \E n \in DOMAIN function.nodes :
          any_in({<<"d","e","l","a","y">>, <<"t","i","m","e","l","o","c","k">>, <<"p","e","n","d","i","n","g">>}, content(n))
      has_multisig ==
        \E n \in DOMAIN function.nodes :
          any_in({<<"m","u","l","t","i","s","i","g">>, <<"t","h","r","e","s","h","o","l","d">>, <<"s","i","g","n","a","t","u","r","e","s">>}, content(n))
  IN
  (IF ~has_limit
   THEN <<Finding("l2-bridge-exit-risk", e, 0, "no withdrawal limit")>> ELSE << >>)
  \o
  (IF ~has_delay
   THEN <<Finding("l2-bridge-exit-risk", e, 0, "no withdrawal delay")>> ELSE << >>)
  \o
  (IF ~has_multisig
   THEN <<Finding("l2-bridge-exit-risk", e, 0, "no multi-sig requirement")>> ELSE << >>)

BridgeExit_evaluate(m, e) ==
  LET function == m[e.contract].functions[e.function] IN
  IF BridgeExit_is_admin_withdrawal(function)
  THEN BridgeExit_check_withdrawal_safety(function, e)
  ELSE << >>

-----------------------------------------------------------------------------
(* admin_security.py: EmergencyWithdrawRisk *)

EMERGENCY_PATTERNS == {<<"e","m","e","r","g","e","n","c","y">>, <<"r","e","s","c","u","e">>, <<"r","e","c","o","v","e","r">>, <<"s","w","e","e","p">>, <<"p","a","n","i","c">>}

EmergencyWithdraw_is_emergency_function(function) ==
  any_in(EMERGENCY_PATTERNS, lower(function.name))

EmergencyWithdraw_check_emergency_safety(function, e) ==
  LET content(n) == lower(function.nodes[n].text)
      restricted_to_admin ==
        \E k \in DOMAIN function.modifiers :
          any_in({<<"a","d","m","i","n">>, <<"o","w","n","e","r">>, <<"g","o","v","e","r","n","a","n","c","e">>}, lower(function.modifiers[k]))
      requires_user_action ==
        \E n \in DOMAIN function.nodes :
          /\ contains(content(n), <<"m","s","g",".","s","e","n","d","e","r">>)
          /\ any_in({<<"u","s","e","r">>, <<"d","e","p","o","s","i","t","o","r">>, <<"p","o","s","i","t","i","o","n">>}, content(n))
      has_token_whitelist ==
        \E n \in DOMAIN function.nodes :
          any_in({<<"a","l","l","o","w","e","d","t","o","k","e","n">>, <<"r","e","s","c","u","e","t","o","k","e","n","s">>}, content(n))
  IN
  (IF restricted_to_admin /\ ~requires_user_action
   THEN <<Finding("admin-emergency-withdraw", e, 0,
                  "admin can withdraw without user consent")>>
   ELSE << >>)
  \o
  (IF ~has_token_whitelist
   THEN <<Finding("admin-emergency-withdraw", e, 0, "no token whitelist")>> ELSE << >>)

EmergencyWithdraw_evaluate(m, e) ==
  LET function == m[e.contract].functions[e.function] IN
  IF EmergencyWithdraw_is_emergency_function(function)
  THEN EmergencyWithdraw_check_emergency_safety(function, e)
  ELSE << >>

-----------------------------------------------------------------------------
(* admin_security.py: MultiSigBypassRisk *)

MultiSig_is_multisig_contract(contract) ==
  any_in({<<"m","u","l","t","i","s","i","g">>, <<"g","n","o","s","i","s">>, <<"s","a","f","e">>, <<"w","a","l","l","e","t">>, <<"s","i","g","n","e","r","s">>}, lower(contract.name))

MultiSig_function_has_delay(function) ==
  \E n \in DOMAIN function.nodes :
    any_in({<<"d","e","l","a","y">>, <<"t","i","m","e","l","o","c","k">>, <<"p","e","n","d","i","n","g">>, <<"q","u","e","u","e">>}, lower(function.nodes[n].text))

\* one issue per function and per check it fails
MultiSig_check_multisig_safety(contract, e) ==
  Flatten([f \in 1..Len(contract.functions) |->
    LET function == contract.functions[f]
        name == lower(function.name)
    IN
    (IF contains(name, <<"t","h","r","e","s","h","o","l","d">>) /\ ~MultiSig_function_has_delay(function)
     THEN <<Finding("admin-multisig-bypass", e, 0, "threshold change has no timelock")>>
     ELSE << >>)
    \o
    (IF /\ any_in({<<"a","d","d","s","i","g","n","e","r">>, <<"r","e","m","o","v","e","s","i","g","n","e","r">>, <<"a","d","d","o","w","n","e","r">>, <<"r","e","m","o","v","e","o","w","n","e","r">>}, name)
        /\ ~MultiSig_function_has_delay(function)
     THEN <<Finding("admin-multisig-bypass", e, 0, "signer management has no timelock")>>
     ELSE << >>)])

MultiSig_evaluate(m, e) ==
  IF MultiSig_is_multisig_contract(m[e.contract])
  THEN MultiSig_check_multisig_safety(m[e.contract], e)
  ELSE << >>
-----------------------------------------------------------------------------
(* cryptographic_primitives.py: BN254ZeroPointDetector *)

CRYPTO_PATTERNS ==
  {<<"b","n","2","5","4">>, <<"b","l","s">>, <<"g","1","p","o","i","n","t">>, <<"g","2","p","o","i","n","t">>, <<"p","a","i","r","i","n","g">>, <<"v","e","r","i","f","y","s","i","g","n","a","t","u","r","e">>,
   <<"v","e","r","i","f","y","p","r","o","o","f">>, <<"a","g","g","r","e","g","a","t","e">>, <<"e","c","a","d","d">>, <<"e","c","m","u","l">>, <<"e","c","p","a","i","r","i","n","g">>}

BN254_handles_crypto(function) ==
  \/ any_in(CRYPTO_PATTERNS, lower(function.name))
  \/ \E p \in DOMAIN function.parameters :
       /\ any_in({<<"u","i","n","t","2","5","6","[","2","]">>, <<"u","i","n","t","2","5","6","[","4","]">>}, lower(function.parameters[p].type))
       /\ any_in({<<"k","e","y">>, <<"p","o","i","n","t">>, <<"s","i","g">>, <<"p","u","b">>, <<"g","1">>, <<"g","2">>},
                 lower(function.parameters[p].name))
  \/ \E k \in DOMAIN function.internal_calls :
       any_in(CRYPTO_PATTERNS, lower(function.internal_calls[k]))

\* zero_patterns are compared as plain substrings, after pattern.lower()
BN254_has_zero_check(function) ==
  \E n \in DOMAIN function.nodes :
    \E pattern \in {<<"!","="," ","0">>, <<"!","="," ","0","x","0">>, <<"!","="," ","a","d","d","r","e","s","s","(","0",")">>, <<">"," ","0">>, <<"p","o","i","n","t",".","x"," ","!","="," ","0">>,
                    <<"p","o","i","n","t",".","y"," ","!","="," ","0">>, <<"r","e","q","u","i","r","e","(",".","*","k","e","y",".","*","!","="," ","0">>, <<"r","e","q","u","i","r","e","(",".","*","p","o","i","n","t",".","*","!","="," ","0">>} :
      contains(lower(function.nodes[n].text), lower(pattern))

BN254_evaluate(m, e) ==
  LET function == m[e.contract].functions[e.function] IN
  IF BN254_handles_crypto(function) /\ ~BN254_has_zero_check(function)
  THEN <<Finding("crypto-bn254-zero-point", e, 0, "may not validate against zero point")>>
  ELSE << >>

-----------------------------------------------------------------------------
(* cryptographic_primitives.py: RogueKeyAttackDetector *)

RogueKey_is_key_registration(function) ==
  /\ any_in({<<"r","e","g","i","s","t","e","r">>, <<"s","e","t","k","e","y">>, <<"a","d","d","k","e","y">>, <<"u","p","d","a","t","e","k","e","y">>, <<"s","e","t","p","u","b","l","i","c">>},
            lower(function.name))
  /\ \E p \in DOMAIN function.parameters :
       any_in({<<"k","e","y">>, <<"p","u","b","k","e","y">>, <<"p","u","b","l","i","c">>, <<"g","1">>, <<"g","2">>},
              lower(function.parameters[p].name))

RogueKey_has_pop_verification(function) ==
  \/ \E n \in DOMAIN function.nodes :
       any_in({<<"v","e","r","i","f","y">>, <<"p","r","o","o","f">>, <<"s","i","g","n","a","t","u","r","e">>, <<"p","o","p">>}, lower(function.nodes[n].text))
  \/ \E p \in DOMAIN function.parameters :
       any_in({<<"p","r","o","o","f">>, <<"s","i","g","n","a","t","u","r","e">>, <<"p","o","p">>, <<"a","t","t","e","s","t","a","t","i","o","n">>},
              lower(function.parameters[p].name))

RogueKey_evaluate(m, e) ==
  LET function == m[e.contract].functions[e.function] IN
  IF RogueKey_is_key_registration(function) /\ ~RogueKey_has_pop_verification(function)
  THEN <<Finding("crypto-rogue-key", e, 0, "registers keys without proof-of-possession")>>
  ELSE << >>

-----------------------------------------------------------------------------
(* cryptographic_primitives.py: SignatureMalleabilityDetector *)

SigMalleability_has_malleability_check(function) ==
  \E n \in DOMAIN function.nodes :
    LET node_str == lower(function.nodes[n].text) IN
    \/ contains(node_str, <<"s"," ","<">>) \/ contains(node_str, <<"s"," ","<","=">>)
    \/ contains(node_str, <<"s","e","c","p","2","5","6","k","1">>) /\ contains(node_str, <<"d","i","v">>)
    \/ contains(node_str, <<"e","c","d","s","a",".","r","e","c","o","v","e","r">>) \/ contains(node_str, <<"e","c","d","s","a",".","t","r","y","r","e","c","o","v","e","r">>)

\* one finding per node that mentions ecrecover; the finding names the node
SigMalleability_evaluate(m, e) ==
  LET function == m[e.contract].functions[e.function] IN
  Flatten([n \in 1..Len(function.nodes) |->
    IF /\ contains(lower(function.nodes[n].text), <<"e","c","r","e","c","o","v","e","r">>)
       /\ ~SigMalleability_has_malleability_check(function)
    THEN <<Finding("crypto-sig-malleability", e, n, "ecrecover without s-value protection")>>
    ELSE << >>])

-----------------------------------------------------------------------------
(* cryptographic_primitives.py: ZKProofVerificationGapDetector *)

ZK_PATTERNS == {<<"v","e","r","i","f","y">>, <<"p","r","o","o","f">>, <<"g","r","o","t","h","1","6">>, <<"p","l","o","n","k">>, <<"s","n","a","r","k">>, <<"s","t","a","r","k">>}

ZKGap_handles_zk(function) ==
  \/ any_in(ZK_PATTERNS, lower(function.name))
  \/ \E p \in DOMAIN function.parameters :
       contains(lower(function.parameters[p].name), <<"p","r","o","o","f">>)

ZKGap_check_verification_completeness(function, e) ==
  LET node_str(n) == lower(function.nodes[n].text)
      has_return_check ==
        \E n \in DOMAIN function.nodes :
          contains(node_str(n), <<"r","e","q","u","i","r","e">>) /\ contains(node_str(n), <<"v","e","r","i","f","y">>)
      has_revert == \E n \in DOMAIN function.nodes : contains(node_str(n), <<"r","e","v","e","r","t">>)
  IN IF ~has_return_check /\ ~has_revert
     THEN <<Finding("crypto-zk-verification-gap", e, 0,
                    "ZK verification result may not be checked")>>
     ELSE << >>

ZKGap_evaluate(m, e) ==
  LET function == m[e.contract].functions[e.function] IN
  IF ZKGap_handles_zk(function)
  THEN ZKGap_check_verification_completeness(function, e)
  ELSE << >>

-----------------------------------------------------------------------------
(* cryptographic_primitives.py: PrecompileGasExhaustionDetector *)

ECC_PRECOMPILES == {<<"e","c","a","d","d">>, <<"e","c","m","u","l">>, <<"e","c","p","a","i","r","i","n","g">>, <<"e","c","r","e","c","o","v","e","r">>, <<"m","o","d","e","x","p">>}

PrecompileGas_count_precompile_uses(function) ==
  Cardinality({<<n, precompile>> \in (DOMAIN function.nodes) \X ECC_PRECOMPILES :
                 contains(lower(function.nodes[n].text), precompile)})

PrecompileGas_evaluate(m, e) ==
  IF PrecompileGas_count_precompile_uses(m[e.contract].functions[e.function]) > 0
  THEN <<Finding("crypto-precompile-gas-l2", e, 0, "uses ECC precompile(s)")>>
  ELSE << >>
-----------------------------------------------------------------------------
(* fcfs_tiering.py: GhostStakerDetector *)

\* variant of _enforces_minimum: any require that compares a value > 0 counts
GhostStaker_enforces_any_positive(function) ==
  \E n \in DOMAIN function.nodes :
    function.nodes[n].require /\ contains(lower(function.nodes[n].text), <<">"," ","0">>)

GhostStaker_enforces_minimum(function) ==
  \E n \in DOMAIN function.nodes :
    LET node_str == lower(function.nodes[n].text) IN
    \/ /\ contains(node_str, <<"r","e","q","u","i","r","e">>) \/ contains(node_str, <<"r","e","v","e","r","t">>)
       /\ any_in({<<"a","m","o","u","n","t"," ",">"," ","0">>, <<"a","m","o","u","n","t"," ",">","="," ","m","i","n">>, <<"m","i","n","s","t","a","k","e">>, <<"_","a","m","o","u","n","t"," ",">"," ","0">>},
                 node_str)
    \/ /\ contains(node_str, <<"i","f">>)
       /\ contains(node_str, <<"=","="," ","0">>)
       /\ contains(node_str, <<"r","e","v","e","r","t">>)

GhostStaker_selects(function) ==
  any_in({<<"s","t","a","k","e">>, <<"d","e","p","o","s","i","t">>, <<"j","o","i","n">>, <<"r","e","g","i","s","t","e","r">>}, lower(function.name))

GhostStaker_evaluate(m, e) ==
  LET function == m[e.contract].functions[e.function] IN
  IF ~GhostStaker_selects(function) THEN << >>
  ELSE IF ~GhostStaker_enforces_minimum(function)
  THEN <<Finding("fcfs-ghost-staker", e, 0, "may allow zero-amount staking")>>
  ELSE << >>

-----------------------------------------------------------------------------
(* fcfs_tiering.py: TierBoundaryEdgeCaseDetector *)

TIER_PATTERNS == {<<"t","i","e","r">>, <<"r","a","n","k">>, <<"l","e","v","e","l">>, <<"b","o","u","n","d","a","r","y">>, <<"t","h","r","e","s","h","o","l","d">>}

TierBoundary_handles_tiers(function) ==
  \/ any_in(TIER_PATTERNS, lower(function.name))
  \/ \E n \in DOMAIN function.nodes : any_in(TIER_PATTERNS, lower(function.nodes[n].text))

\* the scan of _has_tier_division from node n on: the first node that decides
RECURSIVE TierBoundary_has_tier_division_from(_, _)
TierBoundary_has_tier_division_from(function, n) ==
  IF n > Len(function.nodes) THEN FALSE
  ELSE LET node_str == lower(function.nodes[n].text) IN
       IF /\ contains(node_str, <<"/"," ","1","0","0">>) \/ contains(node_str, <<"/"," ","1","0","0","0">>)
          /\ any_in(TIER_PATTERNS, node_str)
       THEN TRUE
       ELSE IF contains(node_str, <<"p","e","r","c","e","n","t">>) \/ contains(node_str, <<"b","p","s">>) THEN TRUE
       ELSE TierBoundary_has_tier_division_from(function, n + 1)

TierBoundary_evaluate(m, e) ==
  LET function == m[e.contract].functions[e.function] IN
  IF TierBoundary_handles_tiers(function) /\ TierBoundary_has_tier_division_from(function, 1)
  THEN <<Finding("fcfs-tier-boundary", e, 0, "tier boundaries using integer division")>>
  ELSE << >>

-----------------------------------------------------------------------------
(* fcfs_tiering.py: CascadingTierUpdateDoSDetector *)

CascadeDoS_modifies_ranking(function) ==
  \/ any_in({<<"s","t","a","k","e">>, <<"u","n","s","t","a","k","e">>, <<"u","p","d","a","t","e">>, <<"r","e","r","a","n","k">>, <<"r","e","c","a","l","c","u","l","a","t","e">>},
            lower(function.name))
  \/ \E k \in DOMAIN function.state_variables_written :
       any_in({<<"r","a","n","k">>, <<"t","i","e","r">>, <<"p","o","s","i","t","i","o","n">>, <<"t","r","e","e">>, <<"f","e","n","w","i","c","k">>},
              lower(function.state_variables_written[k]))

\* the loop of _has_cascading_loop from node n on, with its two locals
RECURSIVE CascadeDoS_scan(_, _, _, _)
CascadeDoS_scan(nodes, n, loop_count, has_update_in_loop) ==
  IF n > Len(nodes) THEN has_update_in_loop
  ELSE LET count == IF nodes[n].type \in {"STARTLOOP", "IFLOOP"}
                    THEN loop_count + 1 ELSE loop_count
           hit == /\ count > 0
                  /\ any_in({<<"u","p","d","a","t","e">>, <<"r","e","c","a","l","c","u","l","a","t","e">>, <<"t","i","e","r">>, <<"r","a","n","k">>},
                            lower(nodes[n].text))
       IN CascadeDoS_scan(nodes, n + 1, count, has_update_in_loop \/ hit)

CascadeDoS_has_cascading_loop(function) == CascadeDoS_scan(function.nodes, 1, 0, FALSE)

CascadeDoS_evaluate(m, e) ==
  LET function == m[e.contract].functions[e.function] IN
  IF CascadeDoS_modifies_ranking(function) /\ CascadeDoS_has_cascading_loop(function)
  THEN <<Finding("fcfs-cascade-dos", e, 0, "may trigger cascading tier updates")>>
  ELSE << >>

-----------------------------------------------------------------------------
(* fcfs_tiering.py: PositionGamingDetector *)

PositionGaming_has_fcfs_mechanics(contract) ==
  \/ \E v \in DOMAIN contract.state_variables :
       any_in({<<"r","a","n","k">>, <<"t","i","e","r">>, <<"p","o","s","i","t","i","o","n">>, <<"f","c","f","s">>, <<"q","u","e","u","e">>},
              lower(contract.state_variables[v].name))
  \/ \E f \in DOMAIN contract.functions :
       any_in({<<"r","a","n","k">>, <<"t","i","e","r">>, <<"p","o","s","i","t","i","o","n">>}, lower(contract.functions[f].name))

PositionGaming_has_anti_gaming(contract) ==
  \/ \E v \in DOMAIN contract.state_variables :
       any_in({<<"c","o","o","l","d","o","w","n">>, <<"l","o","c","k","u","p">>, <<"t","i","m","e","l","o","c","k">>, <<"c","o","m","m","i","t">>, <<"r","e","v","e","a","l">>},
              lower(contract.state_variables[v].name))
  \/ \E f \in DOMAIN contract.functions :
       any_in({<<"c","o","o","l","d","o","w","n">>, <<"c","o","m","m","i","t">>, <<"r","e","v","e","a","l">>, <<"l","o","c","k">>},
              lower(contract.functions[f].name))

PositionGaming_evaluate(m, e) ==
  IF /\ PositionGaming_has_fcfs_mechanics(m[e.contract])
     /\ ~PositionGaming_has_anti_gaming(m[e.contract])
  THEN <<Finding("fcfs-position-gaming", e, 0, "FCFS ranking without anti-gaming measures")>>
  ELSE << >>

-----------------------------------------------------------------------------
(* fcfs_tiering.py: FenwickTreeConsistencyDetector *)

TREE_PATTERNS == {<<"f","e","n","w","i","c","k">>, <<"b","i","t">>, <<"b","i","n","a","r","y","i","n","d","e","x","e","d">>, <<"s","e","g","m","e","n","t","t","r","e","e">>, <<"r","a","n","k","i","n","g","t","r","e","e">>}

Fenwick_uses_tree_structure(contract) ==
  \E v \in DOMAIN contract.state_variables :
    \/ any_in(TREE_PATTERNS, lower(contract.state_variables[v].name))
    \/ any_in(TREE_PATTERNS, lower(contract.state_variables[v].type))

\* the unstake functions without a removal, in the order of contract.functions
Fenwick_check_consistency(contract) ==
  Flatten([f \in 1..Len(contract.functions) |->
    LET func == contract.functions[f] IN
    IF /\ any_in({<<"u","n","s","t","a","k","e">>, <<"w","i","t","h","d","r","a","w">>, <<"l","e","a","v","e">>, <<"e","x","i","t">>}, lower(func.name))
       /\ ~\E n \in DOMAIN func.nodes :
             any_in({<<"r","e","m","o","v","e">>, <<"d","e","l","e","t","e">>, <<"p","o","p">>}, lower(func.nodes[n].text))
    THEN <<f>> ELSE << >>])

\* the finding names the unstake function (`location`)
Fenwick_evaluate(m, e) ==
  IF ~Fenwick_uses_tree_structure(m[e.contract]) THEN << >>
  ELSE LET issues == Fenwick_check_consistency(m[e.contract]) IN
       [k \in 1..Len(issues) |->
          Finding("fcfs-fenwick-consistency", Entity(e.contract, issues[k]), 0,
                  "unstake function may not remove from ranking tree")]
-----------------------------------------------------------------------------
(* The DETECTORS list of each module and __init__.py: ALL_DETECTORS.         *)
(* A detector is named by its ARGUMENT.                                      *)

MEV_DETECTORS ==
  <<"mev-missing-slippage", "mev-excessive-slippage", "mev-missing-deadline",
    "mev-flash-loan-enabler", "mev-oracle-manipulation">>

L2_DETECTORS ==
  <<"l2-sequencer-dependency", "l2-message-risk", "l2-address-aliasing",
    "l2-gas-calculation", "l2-reorg-risk">>

EMERGING_DETECTORS ==
  <<"restaking-slashing-risk", "restaking-delegation-risk", "intent-replay-risk",
    "solver-collusion-risk", "points-sybil-risk", "merkle-proof-risk">>

ADMIN_DETECTORS ==
  <<"admin-upgrade-no-timelock", "admin-shared-deployer", "l2-bridge-exit-risk",
    "admin-emergency-withdraw", "admin-multisig-bypass">>

CRYPTO_DETECTORS ==
  <<"crypto-bn254-zero-point", "crypto-rogue-key", "crypto-sig-malleability",
    "crypto-zk-verification-gap", "crypto-precompile-gas-l2">>

FCFS_DETECTORS ==
  <<"fcfs-tier-boundary", "fcfs-ghost-staker", "fcfs-cascade-dos",
    "fcfs-position-gaming", "fcfs-fenwick-consistency">>

\* variant of ALL_DETECTORS: one family is listed twice
ALL_DETECTORS_l2_twice ==
  MEV_DETECTORS \o L2_DETECTORS \o EMERGING_DETECTORS \o ADMIN_DETECTORS \o
  CRYPTO_DETECTORS \o FCFS_DETECTORS \o L2_DETECTORS

ALL_DETECTORS ==
  MEV_DETECTORS \o L2_DETECTORS \o EMERGING_DETECTORS \o ADMIN_DETECTORS \o
  CRYPTO_DETECTORS \o FCFS_DETECTORS

\* the class attribute IMPACT of rule's detector
IMPACT(rule) ==
  CASE rule = "crypto-bn254-zero-point" -> "CRITICAL"
    [] rule \in {"mev-excessive-slippage", "mev-missing-deadline", "l2-gas-calculation",
                 "l2-reorg-risk", "restaking-delegation-risk", "crypto-sig-malleability",
                 "crypto-precompile-gas-l2", "fcfs-position-gaming"} -> "MEDIUM"
    [] OTHER -> "HIGH"

\* the class attribute CONFIDENCE of rule's detector
CONFIDENCE(rule) ==
  CASE rule = "admin-upgrade-no-timelock" -> "HIGH"
    [] rule \in {"mev-flash-loan-enabler", "mev-oracle-manipulation", "l2-address-aliasing",
                 "l2-gas-calculation", "l2-reorg-risk", "solver-collusion-risk",
                 "l2-bridge-exit-risk", "admin-multisig-bypass", "crypto-rogue-key",
                 "crypto-zk-verification-gap", "crypto-precompile-gas-l2",
                 "fcfs-cascade-dos", "fcfs-position-gaming", "fcfs-fenwick-consistency"} -> "LOW"
    [] OTHER -> "MEDIUM"

\* the static metadata of rule's detector class
Metadata(rule) == [ARGUMENT |-> rule, IMPACT |-> IMPACT(rule), CONFIDENCE |-> CONFIDENCE(rule)]

\* the class attributes as rule's _detect leaves them: no method of the package
\* stores to an attribute of a detector or of its class
ClassAfter(rule, classes) == classes

\* the entities the loop of rule's _detect examines, in order
Visits(rule, m) ==
  CASE rule \in {"mev-excessive-slippage", "l2-address-aliasing", "solver-collusion-risk",
                 "admin-shared-deployer", "admin-multisig-bypass", "fcfs-position-gaming",
                 "fcfs-fenwick-consistency"} -> ContractEntities(m)
    [] rule = "l2-sequencer-dependency" -> Sequencer_visits(m)
    [] rule = "restaking-slashing-risk" ->
         ContractThenFunctionEntities(m,
           {c \in DOMAIN m : RestakingSlashing_is_restaking_contract(m[c])})
    [] rule = "admin-upgrade-no-timelock" ->
         ContractThenFunctionEntities(m, {c \in DOMAIN m : ProxyUpgrade_is_proxy_or_admin(m[c])})
    [] OTHER -> FunctionEntities(m)

\* variant of ModelAfter: the detector normalises the contract names in place
ModelAfter_lowered(rule, m) == [c \in DOMAIN m |-> [m[c] EXCEPT !.name = lower(@)]]

\* the model as rule's _detect leaves it. No statement of the package stores to an
\* attribute or an item, deletes, or calls a mutating method on anything but the
\* lists a method has made itself (results, issues, ...): the objects of the
\* compilation unit are only read.
ModelAfter(rule, m) == m

\* whether rule's code for entity e lets an exception out: the only call that can
\* raise on a well-formed model is int() in _extract_numeric_value
Raises(rule, m, e) ==
  /\ rule = "mev-excessive-slippage"
  /\ \E v \in DOMAIN m[e.contract].state_variables :
       LET var == m[e.contract].state_variables[v] IN
       /\ ExcessiveSlippage_is_slippage_variable(var)
       /\ var.expression.present
       /\ ExcessiveSlippage_extract_numeric_value(var.expression).raised

\* what rule's _detect appends to results for entity e
Evaluate(rule, m, e) ==
  CASE rule = "mev-missing-slippage" -> MissingSlippage_evaluate(m, e)
    [] rule = "mev-excessive-slippage" -> ExcessiveSlippage_evaluate(m, e)
    [] rule = "mev-missing-deadline" -> MissingDeadline_evaluate(m, e)
    [] rule = "mev-flash-loan-enabler" -> FlashLoan_evaluate(m, e)
    [] rule = "mev-oracle-manipulation" -> Oracle_evaluate(m, e)
    [] rule = "l2-sequencer-dependency" -> Sequencer_evaluate(m, e)
    [] rule = "l2-message-risk" -> L1L2Message_evaluate(m, e)
    [] rule = "l2-address-aliasing" -> AddressAliasing_evaluate(m, e)
    [] rule = "l2-gas-calculation" -> L2Gas_evaluate(m, e)
    [] rule = "l2-reorg-risk" -> Reorg_evaluate(m, e)
    [] rule = "restaking-slashing-risk" -> RestakingSlashing_evaluate(m, e)
    [] rule = "restaking-delegation-risk" -> RestakingDelegation_evaluate(m, e)
    [] rule = "intent-replay-risk" -> IntentReplay_evaluate(m, e)
    [] rule = "solver-collusion-risk" -> SolverCollusion_evaluate(m, e)
    [] rule = "points-sybil-risk" -> PointsSybil_evaluate(m, e)
    [] rule = "merkle-proof-risk" -> MerkleProof_evaluate(m, e)
    [] rule = "admin-upgrade-no-timelock" -> ProxyUpgrade_evaluate(m, e)
    [] rule = "admin-shared-deployer" -> SharedDeployer_evaluate(m, e)
    [] rule = "l2-bridge-exit-risk" -> BridgeExit_evaluate(m, e)
    [] rule = "admin-emergency-withdraw" -> EmergencyWithdraw_evaluate(m, e)
    [] rule = "admin-multisig-bypass" -> MultiSig_evaluate(m, e)
    [] rule = "crypto-bn254-zero-point" -> BN254_evaluate(m, e)
    [] rule = "crypto-rogue-key" -> RogueKey_evaluate(m, e)
    [] rule = "crypto-sig-malleability" -> SigMalleability_evaluate(m, e)
    [] rule = "crypto-zk-verification-gap" -> ZKGap_evaluate(m, e)
    [] rule = "crypto-precompile-gas-l2" -> PrecompileGas_evaluate(m, e)
    [] rule = "fcfs-tier-boundary" -> TierBoundary_evaluate(m, e)
    [] rule = "fcfs-ghost-staker" -> GhostStaker_evaluate(m, e)
    [] rule = "fcfs-cascade-dos" -> CascadeDoS_evaluate(m, e)
    [] rule = "fcfs-position-gaming" -> PositionGaming_evaluate(m, e)
    [] rule = "fcfs-fenwick-consistency" -> Fenwick_evaluate(m, e)

\* variant of Detect: the detector reads the first contract of the unit before its
\* loop, which raises on a unit without contracts
Detect_first_contract(rule, m, flt, leftover) ==
  IF m = << >> THEN [raised |-> TRUE, results |-> NewResults(leftover)]
  ELSE LET visits == Visits(rule, m) IN
       DetectLoop(rule, visits, [i \in 1..Len(visits) |-> Evaluate(rule, m, visits[i])],
                  [i \in 1..Len(visits) |-> Raises(rule, m, visits[i])],
                  flt, 1, NewResults(leftover))

\* rule's _detect(): `results = []`, the loop, `return results`
Detect(rule, m, flt, leftover) ==
  LET visits == Visits(rule, m) IN
  DetectLoop(rule, visits, [i \in 1..Len(visits) |-> Evaluate(rule, m, visits[i])],
             [i \in 1..Len(visits) |-> Raises(rule, m, visits[i])],
             flt, 1, NewResults(leftover))
-----------------------------------------------------------------------------
(* The runner: IDLE -> RUNNING -> IDLE, one detector of the rule list per step *)

\* a rule-execution error record: the rule id and the entity
ErrorRecord(rule, e) == [rule |-> rule, contract |-> e.contract, function |-> e.function]

\* the exception that leaves a _detect names no entity
UnknownEntity == Entity(0, 0)

\* a worker that holds no pair
Idle == [pc |-> "idle", rule |-> "none", contract |-> 0, local |-> << >>, raised |-> FALSE]

\* the (Contract, Rule) pairs the loop of rule's _detect gets to, in order: `for contract in
\* contracts_derived` goes through every contract unless an exception leaves it
Reached(rule, m, flt) ==
  LET visits == Visits(rule, m)
      failing == {i \in DOMAIN visits : Faulty(flt, rule, visits[i]) \/ Raises(rule, m, visits[i])}
      last == IF failing = {} THEN Len(m)
              ELSE visits[CHOOSE i \in failing : \A j \in failing : i <= j].contract
      cs == SelectSeq(contracts_derived(m), LAMBDA c : c <= last)
  IN [k \in 1..Len(cs) |-> [rule |-> rule, contract |-> cs[k]]]

Faults(m, rl) ==
  {NoFault} \cup
  UNION {{[rule |-> r, contract |-> e.contract, function |-> e.function] :
            e \in Range(Visits(r, m))} : r \in Range(rl)}

InitFrom(Models, RuleLists) ==
  /\ model \in Models
  /\ rules \in RuleLists
  /\ fault \in Faults(model, rules)
  /\ state = "IDLE"
  /\ next = 0
  /\ sink = << >>
  /\ errors = << >>
  /\ results = << >>
  /\ runs = 0
  /\ report = [findings |-> << >>, errors |-> << >>]
  /\ previous = [findings |-> << >>, errors |-> << >>]
  /\ evaluated = EmptyBag
  /\ pending = {}
  /\ workers = [w \in 1..MaxWorkers |-> Idle]
  /\ metadata = [r \in Range(ALL_DETECTORS) |-> Metadata(r)]

\* a contract model is complete when every contract has the parts the rules read
WellFormed(m) ==
  \A c \in DOMAIN m : {"name", "state_variables", "functions", "is_derived"} \subseteq DOMAIN m[c]

\* the single report of a run over a malformed model: no findings, the model error
FatalReport ==
  [findings |-> << >>, errors |-> <<[rule |-> "model-error", contract |-> 0, function |-> 0]>>]

\* run(model, rules) over a malformed model: reported at once, nothing is evaluated
RunFatal ==
  /\ state = "IDLE"
  /\ runs < MaxRuns
  /\ ~WellFormed(model)
  /\ runs' = runs + 1
  /\ previous' = report
  /\ report' = FatalReport
  /\ UNCHANGED <<model, rules, fault, state, next, sink, errors, results,
                 evaluated, pending, workers, metadata>>

\* run(model, rules)
Run ==
  /\ state = "IDLE"
  /\ runs < MaxRuns
  /\ WellFormed(model)
  /\ state' = "RUNNING"
  /\ next' = 1
  /\ sink' = << >>
  /\ errors' = << >>
  /\ runs' = runs + 1
  /\ previous' = report
  /\ evaluated' = EmptyBag
  /\ UNCHANGED <<model, rules, fault, results, report, pending, workers, metadata>>

\* the detector returns: its findings are appended to the sink
DetectReturns ==
  /\ state = "RUNNING"
  /\ next <= Len(rules)
  /\ LET out == Detect(rules[next], model, fault, results) IN
       /\ ~out.raised
       /\ sink' = sink \o out.results
       /\ results' = out.results
  /\ evaluated' = evaluated (+) SetToBag(Range(Reached(rules[next], model, fault)))
  /\ next' = next + 1
  /\ model' = ModelAfter(rules[next], model)
  /\ UNCHANGED <<rules, fault, state, errors, runs, report, previous, pending, workers>>
  /\ metadata' = ClassAfter(rules[next], metadata)

\* the detector raises: the runner records the error under the rule id, which is
\* all it knows of the failure (the exception out of _detect carries no entity),
\* and goes on with the next detector
DetectRaises ==
  /\ state = "RUNNING"
  /\ next <= Len(rules)
  /\ LET out == Detect(rules[next], model, fault, results) IN
       /\ out.raised
       /\ errors' = Append(errors, ErrorRecord(rules[next], UnknownEntity))
       /\ results' = out.results
  /\ evaluated' = evaluated (+) SetToBag(Range(Reached(rules[next], model, fault)))
  /\ next' = next + 1
  /\ model' = ModelAfter(rules[next], model)
  /\ UNCHANGED <<rules, fault, state, sink, runs, report, previous, pending, workers>>
  /\ metadata' = ClassAfter(rules[next], metadata)

\* variant of Complete: the report is written, the engine stays RUNNING
Complete_hangs ==
  /\ state = "RUNNING"
  /\ next > Len(rules)
  /\ report' = [findings |-> sink, errors |-> errors]
  /\ UNCHANGED <<model, rules, fault, state, next, sink, errors, results, runs, previous,
                 evaluated, pending, workers, metadata>>

\* the end of the rule list: the report is handed over
Complete ==
  /\ state = "RUNNING"
  /\ next > Len(rules)
  /\ state' = "IDLE"
  /\ report' = [findings |-> sink, errors |-> errors]
  /\ UNCHANGED <<model, rules, fault, next, sink, errors, results, runs, previous,
                 evaluated, pending, workers, metadata>>

Next == Run \/ DetectReturns \/ DetectRaises \/ Complete

\* the steps of the engine, the run over a malformed model included
NextOrFatal == Next \/ RunFatal

-----------------------------------------------------------------------------
(* The runner with workers: the (Contract, Rule) pairs of a run are taken from *)
(* a pool by workers; the sink serializes the appends                         *)

\* the part of rule's _detect for contract c: the body of
\* `for contract in contracts_derived` on a list of its own
DetectPair(rule, m, c, flt, leftover) ==
  LET visits == SelectSeq(Visits(rule, m), LAMBDA e : e.contract = c) IN
  DetectLoop(rule, visits, [i \in 1..Len(visits) |-> Evaluate(rule, m, visits[i])],
             [i \in 1..Len(visits) |-> Raises(rule, m, visits[i])],
             flt, 1, NewResults(leftover))

\* run(model, rules) with workers
RunWorkers ==
  /\ state = "IDLE"
  /\ runs < MaxRuns
  /\ state' = "RUNNING"
  /\ pending' = {[rule |-> rules[k], contract |-> c] :
                   k \in DOMAIN rules, c \in Range(contracts_derived(model))}
  /\ sink' = << >>
  /\ errors' = << >>
  /\ evaluated' = EmptyBag
  /\ runs' = runs + 1
  /\ previous' = report
  /\ UNCHANGED <<model, rules, fault, next, results, report, workers, metadata>>

\* worker w takes a pair from the pool and evaluates it on the model
EvaluatePair(w) ==
  /\ state = "RUNNING"
  /\ workers[w].pc = "idle"
  /\ \E pair \in pending :
       LET out == DetectPair(pair.rule, model, pair.contract, fault, results) IN
       /\ pending' = pending \ {pair}
       /\ workers' = [workers EXCEPT ![w] =
                        [pc |-> "append", rule |-> pair.rule, contract |-> pair.contract,
                         local |-> out.results, raised |-> out.raised]]
       /\ results' = out.results
       /\ evaluated' = evaluated (+) SetToBag({pair})
       /\ model' = ModelAfter(pair.rule, model)
       /\ metadata' = ClassAfter(pair.rule, metadata)
  /\ UNCHANGED <<rules, fault, state, next, sink, errors, runs, report, previous>>

\* worker w hands over what it found, or the failure of its pair: one serialized
\* append to the Finding Sink
AppendPair(w) ==
  /\ state = "RUNNING"
  /\ workers[w].pc = "append"
  /\ IF workers[w].raised
     THEN /\ errors' = Append(errors, ErrorRecord(workers[w].rule, Entity(workers[w].contract, 0)))
          /\ sink' = sink
     ELSE /\ sink' = sink \o workers[w].local
          /\ errors' = errors
  /\ workers' = [workers EXCEPT ![w] = Idle]
  /\ UNCHANGED <<model, rules, fault, state, next, results, runs, report, previous,
                 evaluated, pending, metadata>>

\* the pool is empty and every worker is idle: the run completes
JoinWorkers ==
  /\ state = "RUNNING"
  /\ pending = {}
  /\ \A w \in DOMAIN workers : workers[w].pc = "idle"
  /\ state' = "IDLE"
  /\ report' = [findings |-> sink, errors |-> errors]
  /\ UNCHANGED <<model, rules, fault, next, sink, errors, results, runs, previous,
                 evaluated, pending, workers, metadata>>

NextWorkers ==
  \/ RunWorkers
  \/ \E w \in DOMAIN workers : EvaluatePair(w)
  \/ \E w \in DOMAIN workers : AppendPair(w)
  \/ JoinWorkers
-----------------------------------------------------------------------------
(* Inputs: compilation units that several rules report on *)

ProxyAdminContract ==
  Contract(<<"P","r","o","x","y","A","d","m","i","n">>, << >>,
    <<Function(<<"u","p","g","r","a","d","e","T","o">>, "external", <<<<"n","e","w","I","m","p","l","e","m","e","n","t","a","t","i","o","n">>>>, <<<<"o","n","l","y","O","w","n","e","r">>>>,
               <<Expr(<<"i","m","p","l","e","m","e","n","t","a","t","i","o","n"," ","="," ","n","e","w","I","m","p","l","e","m","e","n","t","a","t","i","o","n">>)>>),
      Function(<<"s","t","a","k","e">>, "external", <<<<"a","m","o","u","n","t">>>>, << >>,
               <<Expr(<<"s","t","a","k","e","d","[","m","s","g",".","s","e","n","d","e","r","]"," ","+","="," ","a","m","o","u","n","t">>)>>)>>)

VaultContract ==
  Contract(<<"V","a","u","l","t">>, <<StateVariable(<<"m","a","x","S","l","i","p","p","a","g","e">>, <<"u","i","n","t","2","5","6">>, LiteralExpression(<<"1","0","0","0">>))>>,
    <<Function(<<"s","w","a","p">>, "external", << >>, << >>,
               <<Node("EXPRESSION", <<"r","o","u","t","e","r",".","s","w","a","p","E","x","a","c","t","T","o","k","e","n","s","F","o","r","T","o","k","e","n","s","(","a","m","o","u","n","t",",","0",")">>, FALSE,
                      <<HighLevelCall(<<"s","w","a","p","E","x","a","c","t","T","o","k","e","n","s","F","o","r","T","o","k","e","n","s">>,
                                      <<Variable({}), Literal(<<"0">>)>>, TRUE)>>)>>),
      Function(<<"d","e","p","o","s","i","t">>, "external", <<<<"a","m","o","u","n","t">>>>, << >>,
               <<Require(<<"r","e","q","u","i","r","e","(","b","o","o","l",")","(","a","m","o","u","n","t"," ",">"," ","0",")">>)>>)>>)

Models == SeqsUpTo({ProxyAdminContract, VaultContract}, MaxContracts)

RuleLists == {MEV_DETECTORS, ADMIN_DETECTORS, FCFS_DETECTORS}

Init == InitFrom(Models, RuleLists)

Spec == Init /\ [][Next]_vars

-----------------------------------------------------------------------------
(* Inputs: the whole catalogue, over no contract and over one *)

CatalogueModels == {<< >>, <<ProxyAdminContract>>}

InitCatalogue == InitFrom(CatalogueModels, {ALL_DETECTORS})

SpecCatalogue == InitCatalogue /\ [][Next]_vars

-----------------------------------------------------------------------------
(* Inputs: missing-slippage *)

SlippageArguments ==
  {Literal(<<"0">>), Literal(<<"1">>), Variable({1}), Variable({})}

SlippageCalls ==
  {HighLevelCall(name, arguments, TRUE) :
     name \in {<<"s","w","a","p","E","x","a","c","t","T","o","k","e","n","s","F","o","r","T","o","k","e","n","s">>, <<"S","W","A","P">>, <<"t","r","a","n","s","f","e","r">>},
     arguments \in SeqsUpTo(SlippageArguments, MaxArgs)}

SlippageFunctions ==
  {Function(<<"s","w","a","p">>, visibility, parameters, << >>,
            <<Node("EXPRESSION", <<"r","o","u","t","e","r",".","c","a","l","l","(",")">>, FALSE, <<ir>>)>>) :
     visibility \in {"external", "internal"},
     parameters \in {<<<<"a","m","o","u","n","t","I","n">>>>, <<<<"m","i","n","_","A","m","o","u","n","t","_","O","u","t">>>>},
     ir \in SlippageCalls}

SlippageModels == {<<Contract(<<"T","r","a","d","e","r">>, << >>, <<f>>)>> : f \in SlippageFunctions}

InitSlippage == InitFrom(SlippageModels, {<<"mev-missing-slippage">>})

SpecSlippage == InitSlippage /\ [][Next]_vars

-----------------------------------------------------------------------------
(* Inputs: ghost-staker *)

GhostNodes ==
  {Require(<<"r","e","q","u","i","r","e","(","b","o","o","l",")","(","a","m","o","u","n","t"," ",">"," ","0",")">>),
   Require(<<"r","e","q","u","i","r","e","(","b","o","o","l",")","(","m","s","g",".","v","a","l","u","e"," ",">"," ","0",")">>),
   Require(<<"r","e","q","u","i","r","e","(","b","o","o","l",")","(","_","a","m","o","u","n","t"," ",">","="," ","m","i","n","S","t","a","k","e",")">>),
   Require(<<"r","e","q","u","i","r","e","(","b","o","o","l",",","s","t","r","i","n","g",")","(","s","h","a","r","e","s"," ","=","="," ","0",",","r","e","v","e","r","t"," ","i","f"," ","m","i","n","t","e","d",")">>),
   Node("IF", <<"a","m","o","u","n","t"," ","=","="," ","0">>, FALSE, << >>),
   Expr(<<"r","e","v","e","r","t"," ","Z","e","r","o","A","m","o","u","n","t","(",")","(",")">>),
   Expr(<<"o","k"," ","="," ","a","m","o","u","n","t"," ",">"," ","0">>),
   Require(<<"r","e","q","u","i","r","e","(","b","o","o","l",")","(","o","k",")">>),
   Require(<<"r","e","q","u","i","r","e","(","b","o","o","l",")","(","m","i","n","S","t","a","k","e","S","e","t",")">>),
   Expr(<<"s","t","a","k","e","d","[","m","s","g",".","s","e","n","d","e","r","]"," ","+","="," ","a","m","o","u","n","t">>)}

GhostFunctions ==
  {Function(name, "external", <<<<"a","m","o","u","n","t">>>>, << >>, nodes) :
     name \in {<<"s","t","a","k","e">>, <<"d","e","p","o","s","i","t","F","o","r">>, <<"w","i","t","h","d","r","a","w">>},
     nodes \in SeqsUpTo(GhostNodes, MaxNodes)}

GhostModels == {<<Contract(<<"S","t","a","k","i","n","g">>, << >>, <<f>>)>> : f \in GhostFunctions}

InitGhost == InitFrom(GhostModels, {<<"fcfs-ghost-staker">>})

SpecGhost == InitGhost /\ [][Next]_vars

-----------------------------------------------------------------------------
(* Inputs: admin-upgrade *)

ProxyStateVariables ==
  {<< >>,
   <<StateVariable(<<"o","w","n","e","r">>, <<"a","d","d","r","e","s","s">>, NoExpression)>>,
   <<StateVariable(<<"t","i","m","e","l","o","c","k","D","e","l","a","y">>, <<"u","i","n","t","2","5","6">>, NoExpression)>>,
   <<StateVariable(<<"o","w","n","e","r">>, <<"a","d","d","r","e","s","s">>, NoExpression),
     StateVariable(<<"t","i","m","e","l","o","c","k","D","e","l","a","y">>, <<"u","i","n","t","2","5","6">>, NoExpression)>>}

ProxyUpgradeFunctions ==
  {Function(<<"u","p","g","r","a","d","e","T","o">>, "external", <<<<"n","e","w","I","m","p","l","e","m","e","n","t","a","t","i","o","n">>>>, <<<<"o","n","l","y","O","w","n","e","r">>>>, nodes) :
     nodes \in {<<Expr(<<"i","m","p","l","e","m","e","n","t","a","t","i","o","n"," ","="," ","n","e","w","I","m","p","l","e","m","e","n","t","a","t","i","o","n">>)>>,
                <<Require(<<"r","e","q","u","i","r","e","(","b","o","o","l",")","(","b","l","o","c","k",".","t","i","m","e","s","t","a","m","p"," ",">","="," ","e","t","a",")">>),
                  Expr(<<"i","m","p","l","e","m","e","n","t","a","t","i","o","n"," ","="," ","n","e","w","I","m","p","l","e","m","e","n","t","a","t","i","o","n">>)>>}}

ProxyOtherFunctions ==
  {Function(name, "external", << >>, << >>, << >>) :
     name \in {<<"s","t","a","k","e">>, <<"u","p","g","r","a","d","e","T","o","A","n","d","C","a","l","l">>, <<"s","c","h","e","d","u","l","e">>}}

ProxyModels ==
  {<<Contract(name, variables, <<f, g>>)>> :
     name \in {<<"P","r","o","x","y","A","d","m","i","n">>, <<"V","a","u","l","t">>},
     variables \in ProxyStateVariables,
     f \in ProxyUpgradeFunctions,
     g \in ProxyOtherFunctions}

InitProxy == InitFrom(ProxyModels, {<<"admin-upgrade-no-timelock">>})

SpecProxy == InitProxy /\ [][Next]_vars

-----------------------------------------------------------------------------
(* Inputs: cascade-dos *)

CascadeStatements ==
  {Expr(<<"u","p","d","a","t","e","T","i","e","r","(","u","s","e","r",")">>), Expr(<<"t","o","t","a","l"," ","+","="," ","a","m","o","u","n","t">>)}

CascadeBlocks == SeqsUpTo(CascadeStatements, MaxNodes)

\* a body without a loop, or statements before, inside and after one loop
CascadeBodies ==
  CascadeBlocks \cup
  {pre \o <<Node("STARTLOOP", << >>, FALSE, << >>),
            Node("IFLOOP", <<"i"," ","<"," ","s","t","a","k","e","r","s",".","l","e","n","g","t","h">>, FALSE, << >>)>>
       \o body \o <<Node("ENDLOOP", << >>, FALSE, << >>)>> \o post :
     pre \in CascadeBlocks, body \in CascadeBlocks, post \in CascadeBlocks}

CascadeModels ==
  {<<Contract(<<"S","t","a","k","i","n","g">>, << >>,
              <<Function(name, "external", <<<<"a","m","o","u","n","t">>>>, << >>, nodes)>>)>> :
     name \in {<<"u","p","d","a","t","e","S","t","a","k","e">>, <<"c","l","a","i","m">>}, nodes \in CascadeBodies}

InitCascade == InitFrom(CascadeModels, {<<"fcfs-cascade-dos">>})

SpecCascade == InitCascade /\ [][Next]_vars

-----------------------------------------------------------------------------
(* Inputs: flash-loan-enabler *)

CallbackNames ==
  {<<"o","n","F","l","a","s","h","L","o","a","n">>, <<"e","x","e","c","u","t","e","O","p","e","r","a","t","i","o","n">>, <<"u","n","i","s","w","a","p","V","2","C","a","l","l">>, <<"u","n","i","s","w","a","p","V","3","F","l","a","s","h","C","a","l","l","b","a","c","k">>,
   <<"p","a","n","c","a","k","e","C","a","l","l">>, <<"c","a","l","l","e","e">>, <<"c","a","l","l","b","a","c","k">>}

FlashFunctions ==
  {Function(name, visibility, << >>, << >>, nodes) :
     name \in CallbackNames \cup {<<"o","n","_","f","l","a","s","h","_","l","o","a","n">>, <<"C","A","L","L","B","A","C","K">>, <<"s","w","a","p">>},
     visibility \in {"external", "public", "internal"},
     nodes \in {<< >>,
                <<Require(<<"r","e","q","u","i","r","e","(","b","o","o","l",")","(","m","s","g",".","s","e","n","d","e","r"," ","=","="," ","p","o","o","l",")">>)>>,
                <<Require(<<"r","e","q","u","i","r","e","(","b","o","o","l",")","(","a","m","o","u","n","t"," ",">"," ","0",")">>)>>}}

FlashModels == {<<Contract(<<"R","e","c","e","i","v","e","r">>, << >>, <<f>>)>> : f \in FlashFunctions}

InitFlash == InitFrom(FlashModels, {<<"mev-flash-loan-enabler">>})

SpecFlash == InitFlash /\ [][Next]_vars
-----------------------------------------------------------------------------
(* Inputs: bodies in which one check is violated by several nodes *)

DeployerNodes ==
  {Expr(<<"a","d","m","i","n"," ","="," ","m","s","g",".","s","e","n","d","e","r">>), Expr(<<"o","w","n","e","r"," ","="," ","m","s","g",".","s","e","n","d","e","r">>), Expr(<<"p","a","u","s","e","d"," ","="," ","f","a","l","s","e">>)}

WithdrawNodes ==
  {Expr(<<"s","e","e","d"," ","="," ","b","l","o","c","k","h","a","s","h","(","b","l","o","c","k",".","n","u","m","b","e","r"," ","-"," ","1",")">>),
   Require(<<"r","e","q","u","i","r","e","(","b","o","o","l",")","(","a","m","o","u","n","t"," ","<","="," ","d","a","i","l","y","L","i","m","i","t",")">>),
   Expr(<<"t","o","k","e","n",".","t","r","a","n","s","f","e","r","(","t","o",",","a","m","o","u","n","t",")">>)}

ChecksModels ==
  {<<Contract(<<"B","r","i","d","g","e">>, << >>,
              <<Constructor(deployer),
                Function(<<"w","i","t","h","d","r","a","w">>, "external", <<<<"a","m","o","u","n","t">>>>, <<<<"o","n","l","y","O","w","n","e","r">>>>, body)>>)>> :
     deployer \in SeqsUpTo(DeployerNodes, MaxNodes),
     body \in SeqsUpTo(WithdrawNodes, MaxNodes)}

InitChecks ==
  InitFrom(ChecksModels,
           {<<"admin-shared-deployer">>, <<"l2-bridge-exit-risk">>, <<"l2-reorg-risk">>})

SpecChecks == InitChecks /\ [][Next]_vars
-----------------------------------------------------------------------------
(* Inputs: names that differ in case and underscores *)

DeployerConstructor == Constructor(<<Expr(<<"a","d","m","i","n"," ","="," ","m","s","g",".","s","e","n","d","e","r">>)>>)

NamedFunctions ==
  {Function(name, "external", << >>, << >>, << >>) :
     name \in {<<"t","r","a","n","s","f","e","r","A","d","m","i","n">>, <<"t","r","a","n","s","f","e","r","_","a","d","m","i","n">>, <<"T","R","A","N","S","F","E","R","A","D","M","I","N">>,
               <<"u","p","g","r","a","d","e","T","o">>, <<"u","p","g","r","a","d","e","_","t","o">>, <<"U","P","G","R","A","D","E","T","O">>}}

NamedStateVariables ==
  {<< >>} \cup
  {<<StateVariable(name, <<"u","i","n","t","2","5","6">>, NoExpression)>> :
     name \in {<<"t","i","m","e","l","o","c","k">>, <<"t","i","m","e","_","l","o","c","k">>, <<"T","i","m","e","L","o","c","k">>}}

NamesModels ==
  {<<Contract(name, variables, <<DeployerConstructor, f>>)>> :
     name \in {<<"P","r","o","x","y","A","d","m","i","n">>, <<"P","r","o","x","y","_","A","d","m","i","n">>},
     variables \in NamedStateVariables,
     f \in NamedFunctions}

InitNames == InitFrom(NamesModels, {<<"admin-shared-deployer">>, <<"admin-upgrade-no-timelock">>})

SpecNames == InitNames /\ [][Next]_vars
-----------------------------------------------------------------------------
(* Inputs: slippage variables whose initial value is or is not a number *)

ExtractExpressions ==
  {NoExpression, OtherExpression,
   LiteralExpression(<<>>), LiteralExpression(<<"a","b","c">>), LiteralExpression(<<"5","%">>),
   LiteralExpression(<<"0">>), LiteralExpression(<<"1","0","0">>), LiteralExpression(<<"1","0","0","0">>)}

ExtractVariables ==
  {StateVariable(<<"m","a","x","S","l","i","p","p","a","g","e">>, <<"u","i","n","t","2","5","6">>, expression) : expression \in ExtractExpressions}

ExtractModels ==
  {<<Contract(<<"V","a","u","l","t">>, variables, << >>)>> : variables \in SeqsUpTo(ExtractVariables, MaxArgs)}

InitExtract == InitFrom(ExtractModels, {<<"mev-excessive-slippage">>})

SpecExtract == InitExtract /\ [][Next]_vars
-----------------------------------------------------------------------------
(* Inputs: call nodes with and without a literal gas option *)

GasNodes ==
  {Expr(<<"p","o","o","l",".","s","w","a","p","{","g","a","s",":"," ","2","1","0","0","0","}","(","a","m","o","u","n","t","I","n",")">>),
   Expr(<<"p","o","o","l",".","s","w","a","p","(","a","m","o","u","n","t","I","n",")">>),
   Expr(<<"t","o",".","c","a","l","l","{","g","a","s",":"," ","2","1","0","0","0","}","(","d","a","t","a",")">>),
   Expr(<<"t","o",".","c","a","l","l","{","v","a","l","u","e",":"," ","1",","," ","g","a","s",":","5","0","0","0","}","(","d","a","t","a",")">>),
   Expr(<<"t","o",".","c","a","l","l","{","g","a","s",":"," ","g","a","s","L","i","m","i","t","}","(","d","a","t","a",")">>)}

GasModels ==
  {<<Contract(<<"R","o","u","t","e","r">>, << >>,
              <<Function(<<"f","o","r","w","a","r","d">>, "external", <<<<"a","m","o","u","n","t","I","n">>>>, << >>, body)>>)>> :
     body \in SeqsUpTo(GasNodes, MaxNodes)}

InitGas == InitFrom(GasModels, {<<"l2-gas-calculation">>, <<"l2-gas-calculation", "l2-reorg-risk">>})

SpecGas == InitGas /\ [][Next]_vars
-----------------------------------------------------------------------------
(* Inputs: one set of rules in every order *)

OrderRules == {"mev-excessive-slippage", "admin-upgrade-no-timelock", "fcfs-ghost-staker"}

\* the sequences that list every rule of S once
Orders(S) == {rl \in SeqsUpTo(S, Cardinality(S)) : Len(rl) = Cardinality(S) /\ Range(rl) = S}

InitOrder == InitFrom(Models, Orders(OrderRules))

SpecOrder == InitOrder /\ [][Next]_vars
-----------------------------------------------------------------------------
(* Inputs: runs with workers *)

WorkerModels == {<<VaultContract>>, <<ProxyAdminContract, VaultContract>>}

\* the faults are those on a contract
InitWorkers ==
  /\ InitFrom(WorkerModels, {<<"mev-excessive-slippage", "admin-upgrade-no-timelock">>})
  /\ fault.function = 0

SpecWorkers == InitWorkers /\ [][NextWorkers]_vars
-----------------------------------------------------------------------------
(* Inputs: state variables with and without a slippage name, and initializers
   at, below and above the threshold, in the notations of integer literals *)

BpsExpressions ==
  {NoExpression,
   LiteralExpression(<<"a","b","c">>), LiteralExpression(<<"0">>), LiteralExpression(<<"5","0","0">>),
   LiteralExpression(<<"5","0","1">>), LiteralExpression(<<"1","e","3">>)}

BpsVariables ==
  {StateVariable(name, <<"u","i","n","t","2","5","6">>, expression) :
     name \in {<<"m","a","x","S","l","i","p","p","a","g","e">>, <<"f","e","e","R","a","t","e">>}, expression \in BpsExpressions}

BpsModels ==
  {<<Contract(<<"V","a","u","l","t">>, variables, << >>)>> : variables \in SeqsUpTo(BpsVariables, MaxArgs)}

InitBps == InitFrom(BpsModels, {<<"mev-excessive-slippage">>})

SpecBps == InitBps /\ [][Next]_vars

-----------------------------------------------------------------------------
(* Inputs: bridge-exit; fund-moving names, admin modifiers, safeguards *)

BridgeNodes ==
  {Require(<<"r","e","q","u","i","r","e","(","b","o","o","l",")","(","a","m","o","u","n","t"," ","<","="," ","m","a","x","W","i","t","h","d","r","a","w","a","l",")">>),
   Require(<<"r","e","q","u","i","r","e","(","b","o","o","l",")","(","b","l","o","c","k",".","t","i","m","e","s","t","a","m","p"," ",">","="," ","r","e","q","u","e","s","t","e","d","A","t"," ","+"," ","D","E","L","A","Y",")">>),
   Require(<<"r","e","q","u","i","r","e","(","b","o","o","l",")","(","s","i","g","n","a","t","u","r","e","s",".","l","e","n","g","t","h"," ",">","="," ","2",")">>),
   Require(<<"r","e","q","u","i","r","e","(","b","o","o","l",")","(","p","e","n","d","i","n","g","A","m","o","u","n","t"," ","<","="," ","d","a","i","l","y","L","i","m","i","t",")">>),
   Expr(<<"t","o","k","e","n",".","t","r","a","n","s","f","e","r","(","t","o",",","a","m","o","u","n","t",")">>)}

BridgeFunctions ==
  {Function(name, "external", <<<<"a","m","o","u","n","t">>>>, modifiers, nodes) :
     name \in {<<"w","i","t","h","d","r","a","w","A","l","l">>, <<"R","E","S","C","U","E">>, <<"w","i","t","h","_","d","r","a","w">>, <<"m","i","n","t">>},
     modifiers \in {<< >>, <<<<"o","n","l","y","O","w","n","e","r">>>>, <<<<"w","h","e","n","N","o","t","P","a","u","s","e","d">>>>,
                    <<<<"w","h","e","n","N","o","t","P","a","u","s","e","d">>, <<"o","n","l","y","A","d","m","i","n">>>>},
     nodes \in SeqsUpTo(BridgeNodes, MaxNodes)}

BridgeModels == {<<Contract(<<"B","r","i","d","g","e">>, << >>, <<f>>)>> : f \in BridgeFunctions}

InitBridge == InitFrom(BridgeModels, {<<"l2-bridge-exit-risk">>})

SpecBridge == InitBridge /\ [][Next]_vars

-----------------------------------------------------------------------------
(* Inputs: gas options at and around the bounds of the hardcoded-gas check *)

GasLimitNodes ==
  {Expr(<<"t","o",".","c","a","l","l","{","g","a","s",":"," ","0","}","(","d","a","t","a",")">>),
   Expr(<<"t","o",".","c","a","l","l","{","g","a","s",":"," ","1","}","(","d","a","t","a",")">>),
   Expr(<<"t","o",".","c","a","l","l","{","g","a","s",":"," ","9","9","9","9","9","9","}","(","d","a","t","a",")">>),
   Expr(<<"t","o",".","c","a","l","l","{","g","a","s",":"," ","1","0","0","0","0","0","0","}","(","d","a","t","a",")">>),
   Expr(<<"p","o","o","l",".","s","w","a","p","{","g","a","s",":"," ","2","1","0","0","0","}","(","a","m","o","u","n","t","I","n",")">>),
   Expr(<<"t","o",".","c","a","l","l","(","d","a","t","a",")">>)}

GasLimitModels ==
  {<<Contract(<<"R","o","u","t","e","r">>, << >>,
              <<Function(<<"f","o","r","w","a","r","d">>, "external", <<<<"a","m","o","u","n","t","I","n">>>>, << >>, body)>>)>> :
     body \in SeqsUpTo(GasLimitNodes, MaxNodes)}

InitGasLimit == InitFrom(GasLimitModels, {<<"l2-gas-calculation">>})

SpecGasLimit == InitGasLimit /\ [][Next]_vars

-----------------------------------------------------------------------------
(* Inputs: runs to their end, over complete and incomplete models *)

\* a contract record without functions and state variables
IncompleteModel == <<[name |-> <<"B","r","o","k","e","n">>]>>

LiveRuleLists ==
  {<< >>, FCFS_DETECTORS, <<"mev-excessive-slippage", "admin-upgrade-no-timelock">>}

InitLive ==
  \/ InitFrom(Models, LiveRuleLists)
  \/ InitFrom({IncompleteModel}, {<< >>})

\* a detector of the rule list is to be called
Calling == state = "RUNNING" /\ next <= Len(rules)

\* Once run() is called the loop over the rule list goes on by itself; the call
\* of run() is the caller's. The second conjunct is WF_vars(DetectReturns \/
\* DetectRaises) written out: that step is enabled exactly when Calling holds
\* (_detect returns or raises on every model) and it is the step that moves next.
SpecLive ==
  /\ InitLive
  /\ [][NextOrFatal]_vars
  /\ ([]<>(~Calling) \/ []<><<Calling /\ next' = next + 1>>_vars)
  /\ WF_vars(Complete)
-----------------------------------------------------------------------------
(* Inputs: oracle reads, with and without TWAP and freshness checks *)

OracleNodes ==
  {Expr(<<"p","r","i","c","e"," ","="," ","p","o","o","l",".","s","l","o","t","0","(",")">>),
   Expr(<<"p","r","i","c","e"," ","="," ","o","r","a","c","l","e",".","c","o","n","s","u","l","t","(","t","o","k","e","n",",","a","m","o","u","n","t",")">>),
   Expr(<<"(","r","o","u","n","d","I","d",",","p","r","i","c","e",")"," ","="," ","f","e","e","d",".","g","e","t","P","r","i","c","e","(",")">>),
   Require(<<"r","e","q","u","i","r","e","(","b","o","o","l",")","(","a","n","s","w","e","r","e","d","I","n","R","o","u","n","d"," ",">","="," ","r","o","u","n","d","I","d",")">>),
   Require(<<"r","e","q","u","i","r","e","(","b","o","o","l",")","(","b","l","o","c","k",".","t","i","m","e","s","t","a","m","p"," ","-"," ","u","p","d","a","t","e","d","A","t"," ","<"," ","3","6","0","0",")">>),
   Expr(<<"b","a","l","a","n","c","e"," ","+","="," ","a","m","o","u","n","t">>)}

OracleModels ==
  {<<Contract(<<"L","e","n","d","i","n","g">>, << >>,
              <<Function(<<"b","o","r","r","o","w">>, "external", <<<<"a","m","o","u","n","t">>>>, << >>, body)>>)>> :
     body \in SeqsUpTo(OracleNodes, MaxNodes)}

InitOracle == InitFrom(OracleModels, {<<"mev-oracle-manipulation">>})

SpecOracle == InitOracle /\ [][Next]_vars

-----------------------------------------------------------------------------
(* Inputs: external calls and state writes in the nodes of a function *)

ExternalCall == HighLevelCall(<<"t","r","a","n","s","f","e","r">>, <<Variable({})>>, TRUE)

ReentryNodes ==
  {Node("EXPRESSION", <<"t","o","k","e","n",".","t","r","a","n","s","f","e","r","(","x",")">>, FALSE, <<ExternalCall>>),
   Node("EXPRESSION", <<"t","o","k","e","n",".","t","r","a","n","s","f","e","r","(","o","t","h","e","r",".","t","r","a","n","s","f","e","r","(","x",")",")">>, FALSE,
        <<ExternalCall, ExternalCall>>),
   Node("EXPRESSION", <<"b","a","l","a","n","c","e"," ","="," ","x">>, FALSE, <<Assignment(TRUE)>>),
   Node("EXPRESSION", <<"l","o","c","a","l"," ","="," ","x">>, FALSE, <<Assignment(FALSE)>>),
   Node("EXPRESSION", <<"b","a","l","a","n","c","e"," ","="," ","t","o","k","e","n",".","t","r","a","n","s","f","e","r","(","x",")">>, FALSE,
        <<ExternalCall, Assignment(TRUE)>>)}

ReentryFunctions ==
  {Function(<<"s","w","a","p">>, "external", << >>, modifiers, nodes) :
     modifiers \in {<< >>, <<<<"n","o","n","R","e","e","n","t","r","a","n","t">>>>},
     nodes \in SeqsUpTo(ReentryNodes, MaxNodes)}

ReentryModels == {<<Contract(<<"P","o","o","l">>, << >>, <<f>>)>> : f \in ReentryFunctions}

InitReentry == InitFrom(ReentryModels, {<<"mev-flash-loan-enabler">>})

SpecReentry == InitReentry /\ [][Next]_vars

-----------------------------------------------------------------------------
(* Inputs: selected and rejected entities; the body lacks every safeguard *)

SelectFunctions ==
  {Function(name, "external", parameters, modifiers,
            <<Expr(<<"b","a","l","a","n","c","e","s","[","t","o","]"," ","+","="," ","a","m","o","u","n","t">>)>>) :
     name \in {<<"s","l","a","s","h","O","p","e","r","a","t","o","r">>, <<"c","l","a","i","m">>, <<"w","i","t","h","d","r","a","w">>, <<"m","i","n","t">>},
     parameters \in {<<<<"a","m","o","u","n","t">>>>, <<<<"m","e","r","k","l","e","P","r","o","o","f">>>>},
     modifiers \in {<< >>, <<<<"o","n","l","y","O","w","n","e","r">>>>}}

SelectModels ==
  {<<Contract(name, << >>, <<f>>)>> : name \in {<<"V","a","u","l","t">>, <<"T","o","k","e","n">>}, f \in SelectFunctions}

SelectRules == <<"restaking-slashing-risk", "l2-bridge-exit-risk", "merkle-proof-risk">>

InitSelect == InitFrom(SelectModels, {SelectRules})

SpecSelect == InitSelect /\ [][Next]_vars

-----------------------------------------------------------------------------
(* Inputs: sequencer-dependency; contracts that look and do not look L2-targeted,
   with and without a sequencer-uptime check *)

PlainBody == <<Expr(<<"b","a","l","a","n","c","e","s","[","m","s","g",".","s","e","n","d","e","r","]"," ","-","="," ","a","m","o","u","n","t">>)>>

VaultPlain ==
  Contract(<<"V","a","u","l","t">>, << >>,
    <<Function(<<"l","i","q","u","i","d","a","t","e">>, "external", <<<<"a","m","o","u","n","t">>>>, << >>, PlainBody),
      Function(<<"d","e","p","o","s","i","t">>, "external", <<<<"a","m","o","u","n","t">>>>, << >>, PlainBody)>>)

ArbitrumVault ==
  Contract(<<"A","r","b","i","t","r","u","m","V","a","u","l","t">>, << >>,
    <<Function(<<"l","i","q","u","i","d","a","t","e">>, "external", <<<<"a","m","o","u","n","t">>>>, << >>, PlainBody),
      Function(<<"c","l","a","i","m","_","R","e","w","a","r","d","s">>, "external", <<<<"a","m","o","u","n","t">>>>, << >>, PlainBody)>>)

LendingArbSys ==
  Contract(<<"L","e","n","d","i","n","g">>, << >>,
    <<Function(<<"w","i","t","h","d","r","a","w">>, "external", <<<<"a","m","o","u","n","t">>>>, << >>,
               <<Expr(<<"h","e","i","g","h","t"," ","="," ","A","r","b","S","y","s","(","1","0","0",")",".","a","r","b","B","l","o","c","k","N","u","m","b","e","r","(",")">>)>>)>>)

OracleChecked ==
  Contract(<<"O","r","a","c","l","e">>, << >>,
    <<Function(<<"s","e","t","t","l","e">>, "external", <<<<"a","m","o","u","n","t">>>>, << >>, PlainBody),
      Function(<<"c","h","e","c","k","U","p","t","i","m","e">>, "internal", << >>, << >>,
               <<Require(<<"r","e","q","u","i","r","e","(","b","o","o","l",")","(","s","e","q","u","e","n","c","e","r","_","U","p","t","i","m","e","_","F","e","e","d",".","l","a","t","e","s","t","A","n","s","w","e","r","(",")"," ","=","="," ","0",")">>)>>)>>)

L2Base ==
  BaseContract(<<"L","2","B","a","s","e">>, << >>,
    <<Function(<<"e","x","p","i","r","e">>, "external", <<<<"a","m","o","u","n","t">>>>, << >>, PlainBody)>>)

SequencerContracts == {VaultPlain, ArbitrumVault, LendingArbSys, OracleChecked, L2Base}

SequencerModels == SeqsUpTo(SequencerContracts, MaxContracts)

InitSequencer == InitFrom(SequencerModels, {<<"l2-sequencer-dependency">>})

SpecSequencer == InitSequencer /\ [][Next]_vars

-----------------------------------------------------------------------------
(* Inputs: missing-slippage; constructors and functions of every visibility
   whose nodes make DEX calls with and without slippage protection *)

UnprotectedSwap == HighLevelCall(<<"s","w","a","p","E","x","a","c","t","T","o","k","e","n","s","F","o","r","T","o","k","e","n","s">>, <<Literal(<<"0">>)>>, TRUE)

ProtectedSwap == HighLevelCall(<<"e","x","a","c","t","I","n","p","u","t">>, <<Variable({1})>>, TRUE)

OtherCall == HighLevelCall(<<"t","r","a","n","s","f","e","r">>, <<Literal(<<"0">>)>>, TRUE)

VisibilityNodes ==
  {Node("EXPRESSION", <<"r","o","u","t","e","r",".","s","w","a","p","E","x","a","c","t","T","o","k","e","n","s","F","o","r","T","o","k","e","n","s","(","0",")">>, FALSE, <<UnprotectedSwap>>),
   Node("EXPRESSION", <<"a",".","s","w","a","p","E","x","a","c","t","T","o","k","e","n","s","F","o","r","T","o","k","e","n","s","(","0",")"," ","+"," ","b",".","s","w","a","p","E","x","a","c","t","T","o","k","e","n","s","F","o","r","T","o","k","e","n","s","(","0",")">>,
        FALSE, <<UnprotectedSwap, UnprotectedSwap>>),
   Node("EXPRESSION", <<"a",".","s","w","a","p","E","x","a","c","t","T","o","k","e","n","s","F","o","r","T","o","k","e","n","s","(","0",")"," ","+"," ","b",".","e","x","a","c","t","I","n","p","u","t","(","a","m","o","u","n","t","I","n",")">>, FALSE,
        <<UnprotectedSwap, ProtectedSwap>>),
   Node("EXPRESSION", <<"t","o","k","e","n",".","t","r","a","n","s","f","e","r","(","0",")">>, FALSE, <<OtherCall>>),
   Expr(<<"t","o","t","a","l"," ","+","="," ","a","m","o","u","n","t","I","n">>)}

VisibilityFunctions ==
  {Function(<<"s","w","a","p">>, visibility, <<<<"a","m","o","u","n","t","I","n">>>>, << >>, nodes) :
     visibility \in {"external", "public", "internal", "private"},
     nodes \in SeqsUpTo(VisibilityNodes, MaxNodes)}
  \cup {Constructor(nodes) : nodes \in SeqsUpTo(VisibilityNodes, MaxNodes)}

VisibilityModels == {<<Contract(<<"T","r","a","d","e","r">>, << >>, <<f>>)>> : f \in VisibilityFunctions}

InitVisibility == InitFrom(VisibilityModels, {<<"mev-missing-slippage">>})

SpecVisibility == InitVisibility /\ [][Next]_vars

-----------------------------------------------------------------------------
(* The claims *)

\* a run has completed and its report is written
Completed == state = "IDLE" /\ runs > 0

\* the findings rule's _detect returns over the model when nothing fails
Expected(rule) == Detect(rule, model, NoFault, << >>).results

\* the findings of `rule` among fs for the entities other than the faulty one
Elsewhere(fs, rule) ==
  SelectSeq(fs, LAMBDA x : /\ x.rule = rule
                           /\ ~(x.contract = fault.contract /\ x.function = fault.function))

C2_PerEntityRecovery ==
  (Completed /\ fault # NoFault) =>
    Elsewhere(report.findings, fault.rule) = Elsewhere(Expected(fault.rule), fault.rule)

\* C3 (as claimed): the report holds exactly one error record per rule-evaluation
\* error, tagged with the failing rule's id and the entity being evaluated.
C3_ErrorsTagged ==
  Completed =>
    report.errors = IF fault = NoFault THEN << >>
                    ELSE <<ErrorRecord(fault.rule, Entity(fault.contract, fault.function))>>

C9_EmptyModel ==
  (Completed /\ model = << >>) => (report.findings = << >> /\ report.errors = << >>)

C9_Witness == Completed /\ model = << >> /\ rules = ALL_DETECTORS

\* the only function of the only contract of the model, in the specifications whose
\* models are one contract with one function under examination
TheContract == model[1]

TheFunction == model[1].functions[1]

FindingsOf(c, f) ==
  SelectSeq(report.findings, LAMBDA x : x.contract = c /\ x.function = f)

\* a run over a model has completed and nothing failed in it
Clean == Completed /\ fault = NoFault

\* C4 (as claimed): a call to a DEX-swap-like target with a literal 0 among its
\* arguments is flagged wherever the 0 stands and whatever the other arguments
\* are, and a call that is not flagged has an argument derived from a parameter.
C4_LiteralZeroFlagged ==
  Clean =>
    \A n \in DOMAIN TheFunction.nodes : \A k \in DOMAIN TheFunction.nodes[n].irs :
      LET ir == TheFunction.nodes[n].irs[k]
          flagged == \E x \in DOMAIN report.findings : report.findings[x].item = n
      IN (/\ TheFunction.visibility = "external"
          /\ lower(ir.function_name) \in {<<"s","w","a","p","e","x","a","c","t","t","o","k","e","n","s","f","o","r","t","o","k","e","n","s">>, <<"s","w","a","p">>})
         => /\ (\E a \in DOMAIN ir.arguments :
                  ir.arguments[a].has_value /\ ir.arguments[a].value = <<"0">>) => flagged
            /\ flagged \/ \E a \in DOMAIN ir.arguments : ir.arguments[a].deps # {}

\* the checks the ghost-staker rule recognises in a node
C5_Recognised(node) ==
  LET text == lower(node.text) IN
  \/ /\ contains(text, <<"r","e","q","u","i","r","e">>) \/ contains(text, <<"r","e","v","e","r","t">>)
     /\ \/ contains(text, <<"a","m","o","u","n","t"," ",">"," ","0">>)
        \/ contains(text, <<"a","m","o","u","n","t"," ",">","="," ","m","i","n">>)
        \/ contains(text, <<"m","i","n","s","t","a","k","e">>)
  \/ contains(text, <<"i","f">>) /\ contains(text, <<"=","="," ","0">>) /\ contains(text, <<"r","e","v","e","r","t">>)

C5_StakeOrDeposit ==
  contains(lower(TheFunction.name), <<"s","t","a","k","e">>) \/ contains(lower(TheFunction.name), <<"d","e","p","o","s","i","t">>)

C6_UpgradeNamed(function) == contains(lower(function.name), <<"u","p","g","r","a","d","e">>)

C6_NoTimelockPattern(contract) ==
  /\ \A v \in DOMAIN contract.state_variables :
       ~contains(lower(contract.state_variables[v].name), <<"t","i","m","e","l","o","c","k">>)
  /\ \A f \in DOMAIN contract.functions :
       /\ ~contains(lower(contract.functions[f].name), <<"s","c","h","e","d","u","l","e">>)
       /\ \A n \in DOMAIN contract.functions[f].nodes :
            ~contains(contract.functions[f].nodes[n].text, <<"b","l","o","c","k",".","t","i","m","e","s","t","a","m","p">>)

\* C6: a contract named ProxyAdmin with a function upgradeTo and no timelock
\* pattern in its state variables, functions and nodes gets one admin-upgrade
\* finding per upgrade-named function, so at least one; with a state variable
\* named timelockDelay it gets none.
C6_ProxyAdminUpgrade ==
  (Clean /\ TheContract.name = <<"P","r","o","x","y","A","d","m","i","n">>) =>
    /\ C6_NoTimelockPattern(TheContract) =>
         /\ Len(report.findings) >= 1
         /\ \A f \in DOMAIN TheContract.functions :
              Len(FindingsOf(1, f)) = IF C6_UpgradeNamed(TheContract.functions[f]) THEN 1 ELSE 0
    /\ (\E v \in DOMAIN TheContract.state_variables :
          TheContract.state_variables[v].name = <<"t","i","m","e","l","o","c","k","D","e","l","a","y">>) =>
         report.findings = << >>

C6_Witness ==
  /\ Clean
  /\ TheContract.name = <<"P","r","o","x","y","A","d","m","i","n">>
  /\ C6_NoTimelockPattern(TheContract)
  /\ Len(report.findings) = 2

\* is a pattern node strictly inside a loop: after a loop start and before its
\* matching end, by depth
RECURSIVE C7_InsideLoop(_, _, _)
C7_InsideLoop(nodes, n, depth) ==
  IF n > Len(nodes) THEN FALSE
  ELSE LET d == IF nodes[n].type = "STARTLOOP" THEN depth + 1
                ELSE IF nodes[n].type = "ENDLOOP" /\ depth > 0 THEN depth - 1
                ELSE depth
       IN \/ d > 0 /\ contains(lower(nodes[n].text), <<"u","p","d","a","t","e">>)
          \/ C7_InsideLoop(nodes, n + 1, d)

\* C7 (as claimed): the cascade-dos rule reports a ranking function exactly when
\* a node between a loop start and the loop's matching end contains a pattern; a
\* pattern node before the first loop or after the end of every loop does not count.
C7_PatternInsideLoopOnly ==
  (Clean /\ TheFunction.name = <<"u","p","d","a","t","e","S","t","a","k","e">>) =>
    (report.findings # << >>) = C7_InsideLoop(TheFunction.nodes, 1, 0)

\* C10 (as claimed): an external or public function whose name equals an entry of
\* FLASH_LOAN_CALLBACKS, case and underscores ignored, and whose body has no
\* require or assert that mentions msg.sender gets the caller-validation finding.
C10_CallbackNamesMatchAnyCase ==
  (/\ Clean
   /\ TheFunction.visibility \in {"external", "public"}
   /\ replace_underscore(lower(TheFunction.name)) \in
        {<<"o","n","f","l","a","s","h","l","o","a","n">>, <<"e","x","e","c","u","t","e","o","p","e","r","a","t","i","o","n">>, <<"u","n","i","s","w","a","p","v","2","c","a","l","l">>,
         <<"u","n","i","s","w","a","p","v","3","f","l","a","s","h","c","a","l","l","b","a","c","k">>, <<"p","a","n","c","a","k","e","c","a","l","l">>, <<"c","a","l","l","e","e">>, <<"c","a","l","l","b","a","c","k">>}
   /\ ~\E n \in DOMAIN TheFunction.nodes :
         TheFunction.nodes[n].require /\ contains(TheFunction.nodes[n].text, <<"m","s","g",".","s","e","n","d","e","r">>))
    => \E x \in DOMAIN report.findings :
         report.findings[x].check = "does not validate caller"

\* a name with case and underscores normalised
NormalName(name) == replace_underscore(lower(name))

\* the model with every contract, function, state-variable and modifier name
\* normalised: it differs from the model only in letter case and underscores
NormalModel(m) ==
  [c \in DOMAIN m |->
    [m[c] EXCEPT
       !.name = NormalName(@),
       !.state_variables = [v \in DOMAIN @ |-> [@[v] EXCEPT !.name = NormalName(@)]],
       !.functions =
         [f \in DOMAIN @ |->
           [@[f] EXCEPT !.name = NormalName(@),
                        !.modifiers = [k \in DOMAIN @ |-> NormalName(@[k])]]]]]

\* C11 (as claimed): two models whose names differ only in letter case and in
\* underscores get the same findings from every rule.
C11_NamesNormalised ==
  Clean =>
    \A k \in DOMAIN rules :
      SelectSeq(report.findings, LAMBDA x : x.rule = rules[k])
        = Detect(rules[k], NormalModel(model), NoFault, << >>).results

\* C12 (as claimed): no entity gets two findings of the same rule with the same
\* violated check, however many nodes its body has.
C12_OneFindingPerCheck ==
  Completed =>
    \A i, j \in DOMAIN report.findings :
      i < j => report.findings[i] # report.findings[j]

\* the integer literal that follows "gas:" in the expressions of GasNodes, read off
\* the text by hand
C13_Literal(text) ==
  CASE text = <<"p","o","o","l",".","s","w","a","p","{","g","a","s",":"," ","2","1","0","0","0","}","(","a","m","o","u","n","t","I","n",")">> -> [ok |-> TRUE, value |-> 21000, raised |-> FALSE]
    [] text = <<"t","o",".","c","a","l","l","{","g","a","s",":"," ","2","1","0","0","0","}","(","d","a","t","a",")">> -> [ok |-> TRUE, value |-> 21000, raised |-> FALSE]
    [] text = <<"t","o",".","c","a","l","l","{","v","a","l","u","e",":"," ","1",","," ","g","a","s",":","5","0","0","0","}","(","d","a","t","a",")">> -> [ok |-> TRUE, value |-> 5000, raised |-> FALSE]
    [] OTHER -> None

\* C13 (as claimed): numeric extraction returns the integer literal that follows
\* the key and none when there is no literal, and the gas rule examines every node
\* text carrying a literal gas value, whatever call the option is attached to: each
\* node with a hardcoded gas limit gives one finding.
C13_EveryGasLiteralExamined ==
  Clean =>
    /\ \A n \in DOMAIN TheFunction.nodes :
         re_search_gas(TheFunction.nodes[n].text) = C13_Literal(TheFunction.nodes[n].expression)
    /\ Len(SelectSeq(report.findings, LAMBDA x : x.rule = "l2-gas-calculation"))
         = Cardinality({n \in DOMAIN TheFunction.nodes :
                          LET literal == C13_Literal(TheFunction.nodes[n].expression) IN
                          literal.ok /\ literal.value > 0 /\ literal.value < 1000000})


\* the initial values of ExtractExpressions that are no integer literal
C14_NotNumeric(expression) ==
  \/ ~expression.present
  \/ ~expression.has_value
  \/ expression.value \in {<<>>, <<"a","b","c">>, <<"5","%">>}

\* C14: numeric extraction never raises: for no literal, a non-numeric value, a
\* missing value attribute or an empty text it returns none, for the other inputs
\* an integer; the rule that called it records no failure, goes on, and reports no
\* finding for such an input.
C14_ExtractionNeverRaises ==
  fault = NoFault =>
    /\ errors = << >> /\ report.errors = << >>
    /\ \A v \in DOMAIN TheContract.state_variables :
         LET expression == TheContract.state_variables[v].expression
             value == ExcessiveSlippage_extract_numeric_value(expression)
         IN /\ ~value.raised
            /\ C14_NotNumeric(expression) <=> value = None
            /\ Completed /\ C14_NotNumeric(expression) =>
                 \A k \in DOMAIN report.findings : report.findings[k].item # v

\* a completed run over a variable with a non-numeric value followed by one with
\* an excessive value: the second one is reported
C14_Witness ==
  /\ Clean
  /\ Len(TheContract.state_variables) = 2
  /\ TheContract.state_variables[1].expression = LiteralExpression(<<"a","b","c">>)
  /\ \E k \in DOMAIN report.findings : report.findings[k].item = 2

\* the findings of the detectors of rl called one after the other from position k
\* on, each with the list the one before it left
RECURSIVE C15_InOrder(_, _, _, _)
C15_InOrder(rl, m, k, leftover) ==
  IF k > Len(rl) THEN << >>
  ELSE LET out == Detect(rl[k], m, NoFault, leftover) IN
       out.results \o C15_InOrder(rl, m, k + 1, out.results)

C16_Count(s, x) == Cardinality({i \in DOMAIN s : s[i] = x})

C16_SameMultiset(s, t) ==
  \A x \in Range(s) \cup Range(t) : C16_Count(s, x) = C16_Count(t, x)

\* the findings of the pairs of rule list rl evaluated one after the other by a
\* single worker, rule by rule from position k and contract by contract
RECURSIVE C16_Sequential(_, _, _, _)
C16_Sequential(rl, m, flt, k) ==
  IF k > Len(rl) THEN << >>
  ELSE LET cs == contracts_derived(m) IN
       Flatten([i \in 1..Len(cs) |->
                  LET out == DetectPair(rl[k], m, cs[i], flt, << >>) IN
                  IF out.raised THEN << >> ELSE out.results])
       \o C16_Sequential(rl, m, flt, k + 1)

C17_EveryPairOnce ==
  /\ state \in {"IDLE", "RUNNING"}
  /\ \A pair \in BagToSet(evaluated) : CopiesIn(pair, evaluated) = 1
  /\ Completed =>
       \A k \in DOMAIN rules : \A c \in Range(contracts_derived(model)) :
         CopiesIn([rule |-> rules[k], contract |-> c], evaluated) = 1

\* C18: every run terminates: a run that has begun gets to the end of the rule
\* list and hands over the full report (findings and errors); a run over a
\* malformed model gives the single model-error report without findings.
C18_RunTerminates ==
  /\ (state = "RUNNING") ~> (state = "IDLE" /\ report = [findings |-> sink, errors |-> errors])
  /\ [](runs > 0 /\ ~WellFormed(model) => report = FatalReport /\ sink = << >>)

\* a run that has failed on one rule and has ended with its full report
C18_Witness ==
  /\ Completed
  /\ WellFormed(model)
  /\ fault # NoFault
  /\ report.errors # << >>
  /\ report.findings # << >>

\* a run over the incomplete model has ended with the model-error report
C18_WitnessFatal ==
  runs > 0 /\ ~WellFormed(model) /\ report = FatalReport

C21_Identifiers ==
  <<"mev-missing-slippage", "mev-excessive-slippage", "mev-missing-deadline",
    "mev-flash-loan-enabler", "mev-oracle-manipulation",
    "l2-sequencer-dependency", "l2-message-risk", "l2-address-aliasing",
    "l2-gas-calculation", "l2-reorg-risk",
    "restaking-slashing-risk", "restaking-delegation-risk", "intent-replay-risk",
    "solver-collusion-risk", "points-sybil-risk", "merkle-proof-risk",
    "admin-upgrade-no-timelock", "admin-shared-deployer", "l2-bridge-exit-risk",
    "admin-emergency-withdraw", "admin-multisig-bypass",
    "crypto-bn254-zero-point", "crypto-rogue-key", "crypto-sig-malleability",
    "crypto-zk-verification-gap", "crypto-precompile-gas-l2",
    "fcfs-tier-boundary", "fcfs-ghost-staker", "fcfs-cascade-dos",
    "fcfs-position-gaming", "fcfs-fenwick-consistency">>

\* C21: every rule of the catalogue has an identifier of its own, ALL_DETECTORS
\* holds every rule of the six families once, in the order mev, l2, emerging,
\* admin, crypto, fcfs, and identifier, severity and confidence of every rule are
\* in every state of a run what the class states.
C21_CatalogueStatic ==
  /\ \A i, j \in DOMAIN ALL_DETECTORS : i # j => ALL_DETECTORS[i] # ALL_DETECTORS[j]
  /\ ALL_DETECTORS = C21_Identifiers
  /\ \A r \in Range(C21_Identifiers) :
       /\ metadata[r].ARGUMENT = r
       /\ metadata[r].IMPACT = IMPACT(r)
       /\ metadata[r].CONFIDENCE = CONFIDENCE(r)
       /\ metadata[r].IMPACT \in {"CRITICAL", "HIGH", "MEDIUM"}
       /\ metadata[r].CONFIDENCE \in {"HIGH", "MEDIUM", "LOW"}

\* the whole catalogue has been run over a model with a contract
C21_Witness ==
  /\ Completed
  /\ rules = ALL_DETECTORS
  /\ model # << >>
  /\ report.findings # << >>

\* a require/assert-like construct in a node
C22_RequireLike(node) ==
  LET text == lower(node.text) IN
  contains(text, <<"r","e","q","u","i","r","e">>) \/ contains(text, <<"a","s","s","e","r","t">>) \/ contains(text, <<"r","e","v","e","r","t">>)

\* a comparison with zero or with a minimum in a node
C22_Comparison(node) ==
  LET text == lower(node.text) IN
  \/ contains(text, <<">"," ","0">>)
  \/ contains(text, <<"=","="," ","0">>)
  \/ contains(text, <<">","="," ","m","i","n">>)

C22_SingleNodeCheck ==
  \E n \in DOMAIN TheFunction.nodes :
    C22_RequireLike(TheFunction.nodes[n]) /\ C22_Comparison(TheFunction.nodes[n])

\* C22: the lower-bound predicate holds for a stake/deposit function (the
\* ghost-staker rule stays silent) only when one single node of the body holds
\* both a require/assert-like construct and a comparison with zero or a minimum;
\* a require in one node and the comparison in another, or a require without a
\* comparison, leave the predicate false and the rule reports the function.
C22_BothInOneNode ==
  (Clean /\ C5_StakeOrDeposit /\ ~C22_SingleNodeCheck) => Len(report.findings) = 1

\* the part of C22 that holds: a require in one node and the comparison in
\* another do not make the predicate true
C22_SplitCheckReported ==
  /\ Clean
  /\ TheFunction.name = <<"s","t","a","k","e">>
  /\ TheFunction.nodes = <<Expr(<<"o","k"," ","="," ","a","m","o","u","n","t"," ",">"," ","0">>), Require(<<"r","e","q","u","i","r","e","(","b","o","o","l",")","(","o","k",")">>)>>
  /\ Len(report.findings) = 1

\* the entity-selection predicates of the three rules, read off a contract and a
\* function of it
C23_Selected(rule, contract, function) ==
  LET cname == lower(contract.name)
      fname == lower(function.name)
  IN
  CASE rule = "restaking-slashing-risk" ->
         /\ \E t \in {<<"r","e","s","t","a","k","i","n","g">>, <<"e","i","g","e","n","l","a","y","e","r">>, <<"a","v","s">>, <<"o","p","e","r","a","t","o","r">>, <<"d","e","l","e","g","a","t","i","o","n">>,
                      <<"s","t","a","k","i","n","g">>, <<"s","y","m","b","i","o","t","i","c">>, <<"v","a","u","l","t">>} : contains(cname, t)
         /\ \E t \in {<<"s","l","a","s","h">>, <<"p","e","n","a","l","i","z","e">>, <<"p","e","n","a","l","t","y">>, <<"p","u","n","i","s","h">>, <<"c","o","n","f","i","s","c","a","t","e">>} :
              contains(replace_underscore(fname), t)
    [] rule = "l2-bridge-exit-risk" ->
         /\ \E t \in {<<"w","i","t","h","d","r","a","w">>, <<"r","e","s","c","u","e">>, <<"r","e","c","o","v","e","r">>, <<"s","w","e","e","p">>, <<"t","r","a","n","s","f","e","r">>,
                      <<"b","r","i","d","g","e">>} : contains(fname, t)
         /\ \E k \in DOMAIN function.modifiers :
              \E t \in {<<"o","n","l","y","a","d","m","i","n">>, <<"o","n","l","y","o","w","n","e","r">>, <<"o","n","l","y","g","o","v","e","r","n","a","n","c","e">>,
                        <<"o","n","l","y","a","u","t","h","o","r","i","z","e","d">>, <<"a","d","m","i","n","o","n","l","y">>} :
                contains(lower(function.modifiers[k]), t)
    [] rule = "merkle-proof-risk" ->
         /\ contains(fname, <<"c","l","a","i","m">>) \/ contains(fname, <<"r","e","d","e","e","m">>)
         /\ \E p \in DOMAIN function.parameters :
              contains(lower(function.parameters[p].name), <<"p","r","o","o","f">>)
    [] OTHER -> TRUE

C23_OnSelected(fs) ==
  \A i \in DOMAIN fs :
    /\ fs[i].contract \in DOMAIN model
    /\ fs[i].function \in DOMAIN model[fs[i].contract].functions
    /\ C23_Selected(fs[i].rule, model[fs[i].contract],
                    model[fs[i].contract].functions[fs[i].function])

\* C23: the safety checks run on selected entities only: every finding of the
\* slashing, bridge-exit and merkle rules, in the sink and in the report, names a
\* function the rule's selection predicate accepts, so a rejected function gets
\* no finding from the rule whatever its body contains.
C23_OnlySelectedEntities == C23_OnSelected(sink) /\ C23_OnSelected(report.findings)

\* claim(merkleProof) of Token, with a body without any safeguard, passed all
\* three rules: reported by the merkle rule, which selects it, and by no other
C23_Witness ==
  /\ Clean
  /\ TheContract.name = <<"T","o","k","e","n">>
  /\ TheFunction.name = <<"c","l","a","i","m">>
  /\ TheFunction.parameters[1].name = <<"m","e","r","k","l","e","P","r","o","o","f">>
  /\ TheFunction.modifiers = <<<<"o","n","l","y","O","w","n","e","r">>>>
  /\ Len(report.findings) = 2
  /\ \A i \in DOMAIN report.findings : report.findings[i].rule = "merkle-proof-risk"

\* the nodes of the function that make an external high-level call
C24_CallNodes ==
  {n \in DOMAIN TheFunction.nodes :
     \E k \in DOMAIN TheFunction.nodes[n].irs :
       TheFunction.nodes[n].irs[k].kind = "HighLevelCall"}

\* the nodes of the function that assign a state variable
C24_WriteNodes ==
  {n \in DOMAIN TheFunction.nodes :
     \E k \in DOMAIN TheFunction.nodes[n].irs :
       /\ TheFunction.nodes[n].irs[k].kind = "Assignment"
       /\ TheFunction.nodes[n].irs[k].state_lvalue}

C24_Guarded ==
  \E k \in DOMAIN TheFunction.modifiers :
    \E t \in {<<"n","o","n","r","e","e","n","t","r","a","n","t">>, <<"l","o","c","k">>, <<"m","u","t","e","x">>} :
      contains(lower(TheFunction.modifiers[k]), t)

C24_Findings ==
  SelectSeq(report.findings, LAMBDA x : x.check = "state change after external call")

\* C24: the flash-loan rule reports a state change after an external call only
\* when a node that assigns a state variable has an index strictly greater than
\* that of a node making an external high-level call and the function has no
\* reentrancy-guard modifier, and it emits at most one such finding per
\* external-call node.
C24_StateChangeAfterCall ==
  Clean =>
    /\ C24_Findings # << >> =>
         /\ \E c \in C24_CallNodes : \E w \in C24_WriteNodes : w > c
         /\ ~C24_Guarded
    /\ Len(C24_Findings) <= Cardinality(C24_CallNodes)

\* the parts of C24 that hold: a write after a call is reported once, with the
\* first later write
C24_WriteAfterCallReported ==
  /\ Clean
  /\ Len(TheFunction.nodes) = 2
  /\ C24_CallNodes = {1}
  /\ Len(TheFunction.nodes[1].irs) = 1
  /\ C24_WriteNodes = {2}
  /\ Len(C24_Findings) = 1
  /\ C24_Findings[1].item = 2

C25_FundMoving ==
  \E t \in {<<"w","i","t","h","d","r","a","w">>, <<"r","e","s","c","u","e">>, <<"r","e","c","o","v","e","r">>, <<"s","w","e","e","p">>, <<"t","r","a","n","s","f","e","r">>, <<"b","r","i","d","g","e">>} :
    contains(lower(TheFunction.name), t)

C25_AdminModifier ==
  \E k \in DOMAIN TheFunction.modifiers :
    \E t \in {<<"o","n","l","y","a","d","m","i","n">>, <<"o","n","l","y","o","w","n","e","r">>, <<"o","n","l","y","g","o","v","e","r","n","a","n","c","e">>, <<"o","n","l","y","a","u","t","h","o","r","i","z","e","d">>,
              <<"a","d","m","i","n","o","n","l","y">>} :
      contains(lower(TheFunction.modifiers[k]), t)

\* is one of the terms in the text of some node of the body
C25_InBody(terms) ==
  \E n \in DOMAIN TheFunction.nodes :
    \E t \in terms : contains(lower(TheFunction.nodes[n].text), t)

\* the safeguards present in the body
C25_Safeguards ==
  {s \in {"limit", "delay", "multisig"} :
     CASE s = "limit" -> C25_InBody({<<"m","a","x","w","i","t","h","d","r","a","w","a","l">>, <<"w","i","t","h","d","r","a","w","a","l","l","i","m","i","t">>, <<"d","a","i","l","y","l","i","m","i","t">>})
       [] s = "delay" -> C25_InBody({<<"d","e","l","a","y">>, <<"t","i","m","e","l","o","c","k">>, <<"p","e","n","d","i","n","g">>})
       [] OTHER -> C25_InBody({<<"m","u","l","t","i","s","i","g">>, <<"t","h","r","e","s","h","o","l","d">>, <<"s","i","g","n","a","t","u","r","e","s">>})}

\* C25: the bridge-exit rule selects a function iff its name contains a
\* fund-moving term and one of its modifiers matches an admin pattern; a selected
\* function gets 3 findings minus one per safeguard (withdrawal limit, delay,
\* multi-sig) present in its body, any other function gets none.
C25_ThreeMinusSafeguards ==
  Clean =>
    Len(report.findings) =
      IF C25_FundMoving /\ C25_AdminModifier THEN 3 - Cardinality(C25_Safeguards) ELSE 0

\* an admin withdrawal whose body has a limit and nothing else: two findings
C25_Witness ==
  /\ Clean
  /\ TheFunction.name = <<"w","i","t","h","d","r","a","w","A","l","l">>
  /\ TheFunction.modifiers = <<<<"w","h","e","n","N","o","t","P","a","u","s","e","d">>, <<"o","n","l","y","A","d","m","i","n">>>>
  /\ C25_Safeguards = {"limit"}
  /\ Len(report.findings) = 2

\* the integer an initializer denotes as a literal of the contract language,
\* -1 when the initializer is missing or is no integer literal
C26_LiteralValue(expression) ==
  CASE expression = LiteralExpression(<<"0">>) -> 0
    [] expression = LiteralExpression(<<"5","0","0">>) -> 500
    [] expression = LiteralExpression(<<"5","0","1">>) -> 501
    [] expression = LiteralExpression(<<"1","e","3">>) -> 1000
    [] OTHER -> -1

C26_SlippageName(var) ==
  \E t \in {<<"s","l","i","p","p","a","g","e">>, <<"t","o","l","e","r","a","n","c","e">>, <<"m","a","x","s","l","i","p">>, <<"m","i","n","o","u","t">>} :
    contains(lower(var.name), t)

C26_Reported(v) == \E i \in DOMAIN report.findings : report.findings[i].item = v

\* C26: the excessive-slippage rule reports a state variable iff its name
\* contains a slippage term and its initializer is an integer literal strictly
\* greater than 500; exactly 500, 0, a missing and a non-numeric initializer
\* give no finding.
C26_AboveThresholdReported ==
  Clean =>
    \A v \in DOMAIN TheContract.state_variables :
      C26_Reported(v) <=>
        /\ C26_SlippageName(TheContract.state_variables[v])
        /\ C26_LiteralValue(TheContract.state_variables[v].expression) > 500

\* the parts of C26 that hold: 501 is reported, 500 is not
C26_ThresholdStrict ==
  /\ Clean
  /\ Len(TheContract.state_variables) = 2
  /\ TheContract.state_variables[1] =
       StateVariable(<<"m","a","x","S","l","i","p","p","a","g","e">>, <<"u","i","n","t","2","5","6">>, LiteralExpression(<<"5","0","0">>))
  /\ TheContract.state_variables[2] =
       StateVariable(<<"m","a","x","S","l","i","p","p","a","g","e">>, <<"u","i","n","t","2","5","6">>, LiteralExpression(<<"5","0","1">>))
  /\ Len(report.findings) = 1
  /\ C26_Reported(2)

\* the literal gas value of the expressions of GasLimitNodes, read off the text
\* by hand; -1 when the node carries none
C27_GasLiteral(expression) ==
  CASE expression = <<"t","o",".","c","a","l","l","{","g","a","s",":"," ","0","}","(","d","a","t","a",")">> -> 0
    [] expression = <<"t","o",".","c","a","l","l","{","g","a","s",":"," ","1","}","(","d","a","t","a",")">> -> 1
    [] expression = <<"t","o",".","c","a","l","l","{","g","a","s",":"," ","9","9","9","9","9","9","}","(","d","a","t","a",")">> -> 999999
    [] expression = <<"t","o",".","c","a","l","l","{","g","a","s",":"," ","1","0","0","0","0","0","0","}","(","d","a","t","a",")">> -> 1000000
    [] expression = <<"p","o","o","l",".","s","w","a","p","{","g","a","s",":"," ","2","1","0","0","0","}","(","a","m","o","u","n","t","I","n",")">> -> 21000
    [] OTHER -> -1

C27_HardcodedFindings ==
  SelectSeq(report.findings, LAMBDA x : x.check = "hardcoded gas limit")

\* C27: the L2 gas rule reports a hardcoded gas limit for a node iff the gas
\* literal g of the node satisfies 0 < g < 1000000, one finding per such node;
\* g = 0 and g >= 1000000 give no finding.
C27_OnePerLiteralInRange ==
  Clean =>
    Len(C27_HardcodedFindings) =
      Cardinality({n \in DOMAIN TheFunction.nodes :
                     LET g == C27_GasLiteral(TheFunction.nodes[n].expression) IN
                     0 < g /\ g < 1000000})

\* the part of C27 that holds: on low-level calls the bounds are as claimed
C27_BoundsOnLowLevelCalls ==
  /\ Clean
  /\ Len(TheFunction.nodes) = 2
  /\ TheFunction.nodes[1].expression = <<"t","o",".","c","a","l","l","{","g","a","s",":"," ","9","9","9","9","9","9","}","(","d","a","t","a",")">>
  /\ TheFunction.nodes[2].expression = <<"t","o",".","c","a","l","l","{","g","a","s",":"," ","1","0","0","0","0","0","0","}","(","d","a","t","a",")">>
  /\ Len(C27_HardcodedFindings) = 1

\* does some contract of the model look L2-targeted
C28_LooksL2 ==
  \E c \in DOMAIN model :
    \/ \E t \in {<<"a","r","b","i","t","r","u","m">>, <<"o","p","t","i","m","i","s","m">>, <<"l","2">>, <<"r","o","l","l","u","p">>} :
         contains(lower(model[c].name), t)
    \/ \E f \in DOMAIN model[c].functions :
         \E n \in DOMAIN model[c].functions[f].nodes :
           \E t \in {<<"a","r","b","s","y","s">>, <<"l","2","m","e","s","s","e","n","g","e","r">>, <<"o","v","m","c","o","n","t","e","x","t">>} :
             contains(lower(model[c].functions[f].nodes[n].text), t)

C28_TimeSensitive(function) ==
  \E t \in {<<"l","i","q","u","i","d","a","t","e">>, <<"l","i","q","u","i","d","a","t","i","o","n">>, <<"a","u","c","t","i","o","n">>, <<"s","e","t","t","l","e">>, <<"e","x","p","i","r","e">>, <<"c","l","a","i","m">>,
            <<"w","i","t","h","d","r","a","w">>, <<"e","x","e","r","c","i","s","e">>, <<"c","a","l","l","m","a","r","g","i","n">>} :
    contains(replace_underscore(lower(function.name)), t)

\* does a node of some function of the contract hold a sequencer-uptime pattern
C28_ChecksSequencer(contract) ==
  \E f \in DOMAIN contract.functions :
    \E n \in DOMAIN contract.functions[f].nodes :
      \E t \in {<<"s","e","q","u","e","n","c","e","r","u","p","t","i","m","e","f","e","e","d">>, <<"s","e","q","u","e","n","c","e","r","s","t","a","t","u","s">>, <<"l","2","s","e","q","u","e","n","c","e","r">>,
                <<"i","s","s","e","q","u","e","n","c","e","r","u","p">>} :
        contains(replace_underscore(lower(contract.functions[f].nodes[n].text)), t)

\* C28: the sequencer-dependency rule emits nothing when no contract of the
\* model looks L2-targeted; otherwise it emits one finding per function with a
\* time-sensitive name of each examined contract none of whose nodes holds a
\* sequencer-uptime pattern, and none for a contract one of whose functions
\* holds such a pattern.
C28_SequencerFindings ==
  Clean =>
    /\ ~C28_LooksL2 => report.findings = << >>
    /\ C28_LooksL2 =>
         /\ \A c \in Range(contracts_derived(model)) :
              \A f \in DOMAIN model[c].functions :
                Len(FindingsOf(c, f)) =
                  IF C28_TimeSensitive(model[c].functions[f]) /\ ~C28_ChecksSequencer(model[c])
                  THEN 1 ELSE 0
         /\ \A i \in DOMAIN report.findings :
              /\ report.findings[i].contract \in Range(contracts_derived(model))
              /\ report.findings[i].function \in
                   DOMAIN model[report.findings[i].contract].functions

\* an L2 vault without a check and an oracle whose check stands in another
\* function than the time-sensitive one
C28_Witness ==
  /\ Clean
  /\ model = <<ArbitrumVault, OracleChecked>>
  /\ Len(report.findings) = 2
  /\ FindingsOf(2, 1) = << >>

\* is one of the terms in the lower-cased text of some node of the body
C29_SomeNode(terms) ==
  \E n \in DOMAIN TheFunction.nodes :
    \E t \in terms : contains(lower(TheFunction.nodes[n].text), t)

C29_Spot ==
  C29_SomeNode({<<"g","e","t","s","p","o","t">>, <<"g","e","t","r","e","s","e","r","v","e","s">>, <<"s","l","o","t","0">>, <<"g","e","t","p","r","i","c","e">>, <<"g","e","t","r","a","t","e">>})

C29_Twap == C29_SomeNode({<<"o","b","s","e","r","v","e">>, <<"c","o","n","s","u","l","t">>, <<"t","w","a","p">>, <<"g","e","t","a","v","e","r","a","g","e","p","r","i","c","e">>})

\* a freshness check: a node that names updatedAt, staleness or heartbeat, or a
\* require/assert node that names roundId
C29_Fresh ==
  \/ C29_SomeNode({<<"u","p","d","a","t","e","d","a","t">>, <<"s","t","a","l","e","n","e","s","s">>, <<"h","e","a","r","t","b","e","a","t">>})
  \/ \E n \in DOMAIN TheFunction.nodes :
       TheFunction.nodes[n].require /\ contains(lower(TheFunction.nodes[n].text), <<"r","o","u","n","d","i","d">>)

C29_Count(check) == Len(SelectSeq(report.findings, LAMBDA x : x.check = check))

\* C29: per function the oracle rule emits the spot-price finding iff some node
\* uses a spot-price pattern and none a TWAP pattern, and the stale-oracle
\* finding iff some node uses a spot-price or TWAP pattern and no node is a
\* freshness check, where a roundid counts only in a require/assert node; a
\* function without an oracle pattern gets no finding.
C29_OracleFindings ==
  Clean =>
    /\ C29_Count("uses spot price without TWAP") = IF C29_Spot /\ ~C29_Twap THEN 1 ELSE 0
    /\ C29_Count("no freshness check on oracle data") =
         IF (C29_Spot \/ C29_Twap) /\ ~C29_Fresh THEN 1 ELSE 0
    /\ Len(report.findings) =
         C29_Count("uses spot price without TWAP") + C29_Count("no freshness check on oracle data")
    /\ ~(C29_Spot \/ C29_Twap) => report.findings = << >>

\* a TWAP read next to a spot read whose roundId is read but not required: no
\* spot-price finding, one stale-oracle finding
C29_Witness ==
  /\ Clean
  /\ TheFunction.nodes = <<Expr(<<"p","r","i","c","e"," ","="," ","o","r","a","c","l","e",".","c","o","n","s","u","l","t","(","t","o","k","e","n",",","a","m","o","u","n","t",")">>),
                           Expr(<<"(","r","o","u","n","d","I","d",",","p","r","i","c","e",")"," ","="," ","f","e","e","d",".","g","e","t","P","r","i","c","e","(",")">>)>>
  /\ Len(report.findings) = 1
  /\ report.findings[1].check = "no freshness check on oracle data"

\* the (node, call) pairs of the function whose call is a DEX swap that passes
\* the literal 0 and nothing derived from a parameter
C30_UnprotectedCalls ==
  UNION {{<<n, k>> : k \in {j \in DOMAIN TheFunction.nodes[n].irs :
                               /\ TheFunction.nodes[n].irs[j].kind = "HighLevelCall"
                               /\ TheFunction.nodes[n].irs[j].function_name =
                                    <<"s","w","a","p","E","x","a","c","t","T","o","k","e","n","s","F","o","r","T","o","k","e","n","s">>
                               /\ TheFunction.nodes[n].irs[j].arguments = <<Literal(<<"0">>)>>}} :
           n \in DOMAIN TheFunction.nodes}

C30_Skipped ==
  TheFunction.is_constructor \/ TheFunction.visibility \in {"private", "internal"}

\* C30: the missing-slippage rule emits no finding for a constructor or for a
\* private or internal function, whatever calls its body makes; for any other
\* function it emits one finding per (node, DEX-swap call) without slippage
\* protection, each naming the node of the call.
C30_OnePerUnprotectedCall ==
  Clean =>
    /\ C30_Skipped => report.findings = << >>
    /\ ~C30_Skipped =>
         /\ Len(report.findings) = Cardinality(C30_UnprotectedCalls)
         /\ \A n \in DOMAIN TheFunction.nodes :
              Len(SelectSeq(report.findings, LAMBDA x : x.item = n)) =
                Cardinality({p \in C30_UnprotectedCalls : p[1] = n})

\* a public function whose only node makes two unprotected DEX calls
C30_Witness ==
  /\ Clean
  /\ TheFunction.visibility = "public"
  /\ Len(TheFunction.nodes) = 1
  /\ TheFunction.nodes[1].irs = <<UnprotectedSwap, UnprotectedSwap>>
  /\ Len(report.findings) = 2

\* a constructor that makes an unprotected DEX call has passed the rule
C30_WitnessConstructor ==
  /\ Clean
  /\ TheFunction.is_constructor
  /\ C30_UnprotectedCalls # {}
  /\ report.findings = << >>

====
